---- MODULE Spec2Model ----
(***************************************************************************)
(* A model of maa.py (SLCM attendance automation): the calendar-date       *)
(* targeting chain click_calendar_date_fast / click_calendar_date_robust,  *)
(* the candidate resolver collect_candidates, the month navigator          *)
(* _click_sidebar_prev_next_once, and the date-selection part of main.     *)
(*                                                                         *)
(* The page (DOM) is the environment.  A date attribute is modelled as the *)
(* date it spells in ISO form, [year, month, day]; NoDate is the missing   *)
(* or empty attribute.  String equality with the target's "%Y-%m-%d" form  *)
(* is then equality of dates, and the substring test on "YYYY-MM" is       *)
(* equality of year and month.                                             *)
(***************************************************************************)
EXTENDS Integers, Sequences, FiniteSets, TLC

(***************************************************************************)
(* Bounds of the model.                                                    *)
(***************************************************************************)
MaxNodes == 3      \* nodes in the calendar sidebar
MaxDist == 2       \* initial distance (months) between shown and target month
MaxCells == 2      \* day cells of the sidebar in the runs of main
SettleTimeout == 40  \* timeout of wait_for_events_to_settle, in ticks of 0.05 s
MaxTiles == 2        \* tiles the day panel renders at a time
MaxScrolls == 2      \* scroll steps that fit in max_seconds
MaxAbsentees == 2    \* identifiers in the absentee list
MaxTokens == 6       \* pieces of the subject details argument
MaxWait == 2         \* polls that fit in the timeout of one wait
MaxHeadings == 2     \* heading elements of the page
MaxTop == 8          \* highest scrollTop of the attendance table, in scroll steps
MaxAtoms == 3        \* pieces appended to a tile text
MaxPolls == 2      \* polls of wait_for_day_panel_ready before its timeout

(***************************************************************************)
(* Dates.                                                                  *)
(***************************************************************************)
NoDate == [year |-> 0, month |-> 0, day |-> 0]
TargetDate == [year |-> 2025, month |-> 6, day |-> 5]
OtherDayDate == [year |-> 2025, month |-> 6, day |-> 15]
Today == [year |-> 2025, month |-> 8, day |-> 20]

DataDates == {NoDate, TargetDate, OtherDayDate, [year |-> 2025, month |-> 7, day |-> 5]}

MonthIndexOf(d) == d.year * 12 + d.month

Max(a, b) == IF a >= b THEN a ELSE b

Range(s) == {s[i] : i \in 1..Len(s)}

(***************************************************************************)
(* Sidebar nodes.  txt: whether the trimmed text equals the day number;    *)
(* dd: the data-date attribute; cls: the class / aria-disabled marking     *)
(* ("" none, "disabled", "outside" for outside/adjacent, "other-month",    *)
(* "aria-disabled"); rtop: rect.top; aria: what aria-label/title says      *)
(* ("" nothing, "month", "year", "full" month day, year).                  *)
(***************************************************************************)
ClsKinds == {"", "disabled", "outside"}
AriaKinds == {"", "month", "year", "full"}

Node(txt, dd, cls, rtop, aria) ==
    [txt |-> txt, dd |-> dd, cls |-> cls, rtop |-> rtop, aria |-> aria]

\* outerHTML of a node: its attributes and text, not its position.
Html(n) == [txt |-> n.txt, dd |-> n.dd, cls |-> n.cls, aria |-> n.aria]

\* collect_candidates: isDisabled (lines 364-373)
IsDisabled(n) == n.cls # ""

\* The two date tests in the other order.
PrioritySwapped(n, tgt) ==
    IF tgt # NoDate /\ n.dd # NoDate /\ n.dd.year = tgt.year /\ n.dd.month = tgt.month
    THEN 90
    ELSE IF tgt # NoDate /\ n.dd = tgt THEN 100
    ELSE IF ~IsDisabled(n) THEN 50
    ELSE 10

\* collect_candidates: the priority rule (lines 375-385), the IF chain of
\* the source; tgt is targetDate, NoDate when null.
Priority(n, tgt) ==
    IF tgt # NoDate /\ n.dd = tgt THEN 100
    ELSE IF tgt # NoDate /\ n.dd # NoDate
            /\ n.dd.year = tgt.year /\ n.dd.month = tgt.month THEN 90
    ELSE IF ~IsDisabled(n) THEN 50
    ELSE 10

\* One candidate snapshot (lines 387-396); relTop = Math.max(0, rect.top -
\* wrapRect.top) (lines 356-362).
Candidate(n, wtop, tgt) ==
    [top |-> Max(0, n.rtop - wtop), html |-> Html(n), cls |-> n.cls, aria |-> n.aria,
     dataDate |-> n.dd, isDisabled |-> IsDisabled(n), priority |-> Priority(n, tgt)]

RECURSIVE CollectFrom(_, _, _)
CollectFrom(nodes, wtop, tgt) ==
    IF nodes = << >> THEN << >>
    ELSE LET n == Head(nodes)
             rest == CollectFrom(Tail(nodes), wtop, tgt)
         IN IF n.txt THEN <<Candidate(n, wtop, tgt)>> \o rest ELSE rest

\* collect_candidates (lines 336-405): [] without the wrapper, else the
\* snapshots of the nodes whose text is the day, in DOM order.
collect_candidates(present, nodes, wtop, tgt) ==
    IF ~present THEN << >> ELSE CollectFrom(nodes, wtop, tgt)

(***************************************************************************)
(* sorted(candidates, key=(-priority, top)) (lines 761, 809): a stable     *)
(* insertion sort.                                                         *)
(***************************************************************************)
RECURSIVE InsertByKey(_, _)
InsertByKey(c, s) ==
    IF s = << >> THEN <<c>>
    ELSE IF \/ Head(s).priority > c.priority
            \/ Head(s).priority = c.priority /\ Head(s).top <= c.top
    THEN <<Head(s)>> \o InsertByKey(c, Tail(s))
    ELSE <<c>> \o s

RECURSIVE SortByKey(_)
SortByKey(s) ==
    IF s = << >> THEN << >>
    ELSE InsertByKey(s[Len(s)], SortByKey(SubSeq(s, 1, Len(s) - 1)))

\* The candidates left in DOM order.
Unsorted(cands) == cands

candidates_sorted_of(cands) == SortByKey(cands)

(***************************************************************************)
(* click_order (lines 763-771): the >= 90 group, then the non-disabled     *)
(* candidates not yet in it, then the rest; "not in" is Python's equality  *)
(* of the snapshots.                                                       *)
(***************************************************************************)
SelectNotIn(s, t, onlyEnabled) ==
    SelectSeq(s, LAMBDA c : (onlyEnabled => ~c.isDisabled) /\ c \notin Range(t))

\* The click order without the "not in click_order" tests.
ClickOrderNoFilter(sorted) ==
    LET exact_matches == SelectSeq(sorted, LAMBDA c : c.priority >= 90)
        non_disabled == SelectSeq(sorted, LAMBDA c : ~c.isDisabled)
    IN exact_matches \o non_disabled \o SelectNotIn(sorted, exact_matches \o non_disabled, FALSE)

\* The click order with the non-disabled group ahead of the >= 90 group.
ClickOrderEnabledFirst(sorted) ==
    LET non_disabled == SelectSeq(sorted, LAMBDA c : ~c.isDisabled)
        exact_matches == SelectNotIn(sorted, non_disabled, FALSE)
    IN non_disabled \o SelectSeq(exact_matches, LAMBDA c : c.priority >= 90)
                    \o SelectSeq(exact_matches, LAMBDA c : c.priority < 90)

ClickOrder(sorted) ==
    LET exact_matches == SelectSeq(sorted, LAMBDA c : c.priority >= 90)
        non_disabled == SelectNotIn(sorted, exact_matches, TRUE)
        remaining == SelectNotIn(sorted, exact_matches \o non_disabled, FALSE)
    IN exact_matches \o non_disabled \o remaining

\* MAX_TRIES (line 773)
MaxTries(order) == Max(6, Len(order) * 2)

\* sorted(xs, key=top)[0] (lines 677, 725): the first of the least top.
TopMost(xs) ==
    LET i == CHOOSE i \in 1..Len(xs) :
                 /\ \A j \in 1..Len(xs) : xs[i].top <= xs[j].top
                 /\ \A j \in 1..(i - 1) : xs[j].top > xs[i].top
    IN xs[i]

\* unambiguous_for_target (lines 659-671)
unambiguous_for_target(c, tgt) ==
    \/ c.dataDate # NoDate /\ tgt # NoDate /\ c.dataDate = tgt
    \/ c.aria # "" /\ (c.aria \in {"month", "full"} \/ c.aria \in {"year", "full"})

(***************************************************************************)
(* The month navigator.  A navigation configuration lists the controls the *)
(* sidebar exposes, each naming the physical button it is ("prev" or       *)
(* "next"): the title and aria-label buttons, the .slds-button_icon        *)
(* buttons in DOM order, the .ui-datepicker buttons, and the buttons the   *)
(* arrow filter picks, in DOM order.                                       *)
(***************************************************************************)
NavCfg(wrap, titlePrev, titleNext, ariaPrev, ariaNext, slds, uiPrev, uiNext, arrows) ==
    [wrap |-> wrap, titlePrev |-> titlePrev, titleNext |-> titleNext,
     ariaPrev |-> ariaPrev, ariaNext |-> ariaNext, slds |-> slds,
     uiPrev |-> uiPrev, uiNext |-> uiNext, arrows |-> arrows]

NavNoWrap == NavCfg(FALSE, FALSE, FALSE, FALSE, FALSE, << >>, FALSE, FALSE, << >>)
NavNone == NavCfg(TRUE, FALSE, FALSE, FALSE, FALSE, << >>, FALSE, FALSE, << >>)
NavSlds == NavCfg(TRUE, FALSE, FALSE, FALSE, FALSE, <<"prev", "next">>, FALSE, FALSE, << >>)

NavConfigs ==
    {NavNoWrap, NavNone, NavSlds,
     NavCfg(TRUE, TRUE, TRUE, FALSE, FALSE, << >>, FALSE, FALSE, << >>),
     NavCfg(TRUE, FALSE, TRUE, FALSE, FALSE, << >>, FALSE, FALSE, << >>),
     NavCfg(TRUE, FALSE, FALSE, TRUE, TRUE, << >>, FALSE, FALSE, << >>),
     NavCfg(TRUE, FALSE, FALSE, FALSE, FALSE, <<"next">>, FALSE, FALSE, << >>),
     NavCfg(TRUE, FALSE, FALSE, FALSE, FALSE, << >>, TRUE, TRUE, << >>),
     NavCfg(TRUE, FALSE, FALSE, FALSE, FALSE, << >>, FALSE, FALSE, <<"prev", "next">>),
     NavCfg(TRUE, FALSE, FALSE, FALSE, FALSE, << >>, FALSE, FALSE, <<"next">>)}

\* _click_sidebar_prev_next_once (lines 281-323): the physical control that
\* gets the click, "none" when the function returns false.  The selectors
\* are tried in the order of the source's list; a title, aria-label or
\* ui-datepicker selector that finds its element always ends in el.click()
\* (lines 306-308), whatever `which` is.
StepControl(nav, which) ==
    IF ~nav.wrap THEN "none"
    ELSE IF nav.titlePrev THEN "prev"
    ELSE IF nav.titleNext THEN "next"
    ELSE IF nav.ariaPrev THEN "prev"
    ELSE IF nav.ariaNext THEN "next"
    ELSE IF Len(nav.slds) >= 2 THEN (IF which = "prev" THEN nav.slds[1] ELSE nav.slds[2])
    ELSE IF nav.uiPrev THEN "prev"
    ELSE IF nav.uiNext THEN "next"
    ELSE IF nav.arrows # << >>
         THEN (IF which = "prev" THEN nav.arrows[1] ELSE nav.arrows[Len(nav.arrows)])
    ELSE "none"

\* The calendar's answer to a click on a physical control.
MonthAfter(shown, control) ==
    IF control = "prev" THEN shown - 1
    ELSE IF control = "next" THEN shown + 1
    ELSE shown

\* get_shown_month_index (lines 327-334, 821-828): the label parsed as
\* "Month YYYY"; a label with the month only takes today's year (line 279);
\* no label, today's month.
MonthOfIndex(idx) == ((idx - 1) % 12) + 1

get_shown_month_index(shown, label) ==
    IF label = "full" THEN shown
    ELSE IF label = "month" THEN Today.year * 12 + MonthOfIndex(shown)
    ELSE MonthIndexOf(Today)

LabelKinds == {"full", "month", "none"}

MAX_NAV == 24

(***************************************************************************)
(* State.                                                                  *)
(*   page  the DOM: nav (the navigation controls; nav.wrap is the presence *)
(*         of #calendarSidebar), wrapped (the cells sit in a container     *)
(*         element of the sidebar, e.g. a table, whose outerHTML contains  *)
(*         theirs), sidebar (its nodes in DOM order), wtop (wrapRect.top), *)
(*         gen (the rendering the nodes belong to), stale (a navigation    *)
(*         click was issued and the sidebar has not re-rendered yet),      *)
(*         shown (the displayed MonthIndex), label (what the month label   *)
(*         spells), gridDD / gridMatch (the main grid holds an element     *)
(*         with the target's data-date / a cell described by the target's  *)
(*         "Month d"), blockSpans (the nearest block around a data-date    *)
(*         element also encloses the day panel), dayPanel (the day panel   *)
(*         on screen), marker (window.__slcm_last_clicked_date), fails     *)
(*         (the calls into the driver that raise).                         *)
(*   pc    the position of control; ret the callers of the running         *)
(*         functions (a stack).                                            *)
(*   loc   the locals of click_calendar_date_fast / _robust.               *)
(*   mloc  the locals of main.                                             *)
(*   hist  history, read only by the properties.                           *)
(***************************************************************************)
VARIABLES page, pc, ret, loc, mloc, hist

vars == <<page, pc, ret, loc, mloc, hist>>

\* dayPanel: "none"; "target" (the target's heading, its calendarDay
\* sibling and the event list container); "nolist" (heading and sibling,
\* no list container yet); "heading" (a heading that contains the target's
\* header string, no panel); "other" (the panel of another day).
PanelStates == {"none", "target", "nolist", "heading", "other"}

\* Elements: <<gen, i>> is node i of rendering gen of the sidebar, <<gen, 0>>
\* its container; the elements outside the sidebar have gen -1.
NoElem == <<-1, 0>>
GridDDElem == <<-1, 1>>
GridCell == <<-1, 2>>
RootElem == <<-1, 3>>

Present(pg) == pg.nav.wrap

\* The first, in DOM order, of the positions a selector matches; 0 when it
\* matches none.
FirstIndex(hits) ==
    IF hits = {} THEN 0 ELSE CHOOSE i \in hits : \A j \in hits : i <= j

\* click_fragment: the marker it records (lines 416-427).
MarkerOf(n) ==
    IF n.dd # NoDate THEN n.dd
    ELSE IF n.aria = "full" THEN TargetDate
    ELSE NoDate

ClickResult(ok, elem, marker) == [ok |-> ok, elem |-> elem, marker |-> marker]

\* click_fragment (lines 407-439): the first node of the sidebar, in DOM
\* order, whose outerHTML contains the fragment.
click_fragment(pg, frag) ==
    LET i == FirstIndex({k \in DOMAIN pg.sidebar : Html(pg.sidebar[k]) = frag})
    IN IF ~Present(pg) \/ i = 0 THEN ClickResult(FALSE, NoElem, pg.marker)
       ELSE IF pg.wrapped THEN ClickResult(TRUE, <<pg.gen, 0>>, NoDate)
       ELSE ClickResult(TRUE, <<pg.gen, i>>, MarkerOf(pg.sidebar[i]))

\* document.querySelector("[data-date='<target>']") (lines 688-695, 1227):
\* the sidebar precedes the main grid in document order.
GlobalDataDateElem(pg, tgt) ==
    LET i == FirstIndex({k \in DOMAIN pg.sidebar : pg.sidebar[k].dd = tgt})
    IN IF Present(pg) /\ i # 0 THEN <<pg.gen, i>>
       ELSE IF pg.gridDD THEN GridDDElem
       ELSE NoElem

\* The classes the other click scripts take for disabled.
DisabledDirect == {"disabled", "outside"}                     \* lines 627-635
DisabledRobust == ClsKinds \ {""}                             \* lines 856-865
DisabledGrid == {"disabled"}                                  \* line 461
DisabledSidebarFallback == {"disabled"}                       \* line 1260

\* The first cell with the day's text whose class is not a disabled one.
FirstDayCell(pg, disabled) ==
    LET i == FirstIndex({k \in DOMAIN pg.sidebar :
                            pg.sidebar[k].txt /\ pg.sidebar[k].cls \notin disabled})
    IN IF Present(pg) /\ i # 0 THEN <<pg.gen, i>> ELSE NoElem

\* click_main_grid (lines 441-474): the first node of the document whose
\* aria-label, title, data-date or text contains "Month d": the root when
\* the page's text holds the target's header, else a node labelled with the
\* date, else the first cell with the day's text that is not disabled.
click_main_grid(pg) ==
    LET i == FirstIndex({k \in DOMAIN pg.sidebar : pg.sidebar[k].aria = "full"})
    IN IF pg.dayPanel \in {"target", "nolist", "heading"} THEN RootElem
       ELSE IF Present(pg) /\ i # 0 THEN <<pg.gen, i>>
       ELSE IF pg.gridMatch THEN GridCell
       ELSE FirstDayCell(pg, DisabledGrid)

\* panel_opened_ok (lines 476-616).  The marker strategies (lines 508-578)
\* hit when an element carries the marker as its data-date and its nearest
\* block holds div.eventList, div.calendarDay or ul.eventListContainer; the
\* header strategies (lines 580-613) hit on the target's header string.
MarkerElemExists(pg) ==
    \/ Present(pg) /\ \E i \in 1..Len(pg.sidebar) : pg.sidebar[i].dd = pg.marker
    \/ pg.gridDD /\ pg.marker = TargetDate

panel_opened_ok(pg) ==
    \/ /\ pg.marker # NoDate
       /\ MarkerElemExists(pg)
       /\ pg.blockSpans
       /\ pg.dayPanel \in {"target", "nolist", "other"}
    \/ pg.dayPanel \in {"target", "nolist", "heading"}

(***************************************************************************)
(* panel_opened_ok over a DOM port that may fail.  PortCalls are the calls *)
(* of the function into the driver: the read of the marker (line 500), the *)
(* search of the marker's element (508-525), _has_event_list (479-496),    *)
(* the nearest block (547-552), the aria scan (560-571),                   *)
(* find_day_panel_for_date (582), the panel's list (586), the headers      *)
(* (596-597), a header's text (600), its following sibling (604).  `fails` *)
(* are the calls that raise.                                               *)
(***************************************************************************)
PortCalls ==
    {"marker", "candidate", "has_list", "nearby", "aria_scan", "find_panel",
     "panel_list", "headers", "header_text", "sibling"}

\* The calls without the handler around the read of the marker.
HandledButMarker == PortCalls \ {"marker"}

\* The calls that sit in a try whose except clause catches Exception.
Handled == PortCalls

panel_opened_ok_port(pg, fails) ==
    LET last_clicked == IF "marker" \in fails THEN NoDate ELSE pg.marker
        panel_candidate ==
            /\ last_clicked # NoDate
            /\ "candidate" \notin fails
            /\ MarkerElemExists([pg EXCEPT !.marker = last_clicked])
        has_event_list ==
            /\ "has_list" \notin fails
            /\ pg.blockSpans
            /\ pg.dayPanel \in {"target", "nolist", "other"}
        byMarker == panel_candidate /\ has_event_list
        byNearby == panel_candidate /\ ~byMarker /\ "nearby" \notin fails /\ has_event_list
        afterMarker == ~byMarker /\ ~byNearby
        byPanel ==
            afterMarker /\ "find_panel" \notin fails /\ pg.dayPanel \in {"target", "nolist"}
        headerText ==
            /\ afterMarker /\ ~byPanel
            /\ "headers" \notin fails
            /\ pg.dayPanel \in {"target", "nolist", "heading"}
        byHeader == headerText /\ "header_text" \notin fails
        reached ==
            {"marker"}
            \cup (IF last_clicked # NoDate THEN {"candidate"} ELSE {})
            \cup (IF panel_candidate THEN {"has_list"} ELSE {})
            \cup (IF panel_candidate /\ ~byMarker THEN {"nearby"} ELSE {})
            \cup (IF last_clicked # NoDate /\ afterMarker THEN {"aria_scan"} ELSE {})
            \cup (IF afterMarker THEN {"find_panel"} ELSE {})
            \cup (IF byPanel THEN {"panel_list"} ELSE {})
            \cup (IF afterMarker /\ ~byPanel THEN {"headers"} ELSE {})
            \cup (IF headerText THEN {"header_text"} ELSE {})
            \cup (IF byHeader THEN {"sibling"} ELSE {})
    IN IF (reached \cap fails) \ Handled # {} THEN "raised"
       ELSE IF byMarker \/ byNearby \/ byPanel \/ byHeader THEN "true"
       ELSE "false"

\* wait_for_day_panel_ready's test at one poll (lines 954-960).
DayPanelReady(pg) == pg.dayPanel = "target"

(***************************************************************************)
(* wait_for_events_to_settle (lines 964-989).  Time is counted in ticks of *)
(* 0.05 s and advances with the sleeps of the loop; a call into the driver *)
(* takes no time.  A reading is the [h, c] list the script returns ("a",   *)
(* "b": two signatures) or the (0, 0) tuple of the except clause           *)
(* ("failed"), which equals no list; `last` starts as the (-1, -1) tuple   *)
(* ("init").  stable_since is -1 for None.                                 *)
(***************************************************************************)
TicksPerPoll == 5

QuietTicks == 16

Readings == {"a", "b", "failed"}

InitSettle == [t |-> 0, stable_since |-> -1, last |-> "init", result |-> "running"]

\* A loop body that returns True on the first repeated reading.
SettleStepNoQuiet(st, metrics) ==
    IF metrics = st.last
    THEN [st EXCEPT !.result = "true"]
    ELSE [st EXCEPT !.last = metrics, !.stable_since = -1, !.t = @ + TicksPerPoll]

\* One body of the loop (lines 968-988) with the reading `metrics`.
SettleStep(st, metrics) ==
    IF metrics = st.last
    THEN IF st.stable_since = -1
         THEN [st EXCEPT !.stable_since = st.t, !.t = @ + TicksPerPoll]
         ELSE IF st.t - st.stable_since >= QuietTicks
         THEN [st EXCEPT !.result = "true"]
         ELSE [st EXCEPT !.t = @ + TicksPerPoll]
    ELSE [st EXCEPT !.last = metrics, !.stable_since = -1, !.t = @ + TicksPerPoll]

(***************************************************************************)
(* matches_event_text (lines 890-919).  A text is the sequence of its      *)
(* characters, "" in the code is << >>.  The regular expressions are       *)
(* written out position by position: a search succeeds when some start     *)
(* position and some lengths of the optional and repeated parts match.     *)
(* Letters are the ASCII letters.                                          *)
(***************************************************************************)
Lower == <<"a", "b", "c", "d", "e", "f", "g", "h", "i", "j", "k", "l", "m", "n", "o", "p", "q", "r", "s", "t", "u", "v", "w", "x", "y", "z">>

UpperCase == <<"A", "B", "C", "D", "E", "F", "G", "H", "I", "J", "K", "L", "M", "N", "O", "P", "Q", "R", "S", "T", "U", "V", "W", "X", "Y", "Z">>

Digits == {"0", "1", "2", "3", "4", "5", "6", "7", "8", "9"}

Whitespace == {" ", "\t"}

\* The class [A-Z0-9] of the look-arounds.
AZ09 == Range(UpperCase) \cup Digits

\* str.upper()
Upper(s) ==
    [i \in 1..Len(s) |->
        IF s[i] \in Range(Lower)
        THEN UpperCase[CHOOSE k \in 1..Len(Lower) : Lower[k] = s[i]]
        ELSE s[i]]

\* str.split(): the maximal runs of non-whitespace after position i - 1,
\* `cur` being the run in progress.
RECURSIVE SplitFrom(_, _, _)
SplitFrom(s, i, cur) ==
    LET done == IF cur = << >> THEN << >> ELSE <<cur>>
    IN IF i > Len(s) THEN done
       ELSE IF s[i] \in Whitespace THEN done \o SplitFrom(s, i + 1, << >>)
       ELSE SplitFrom(s, i + 1, Append(cur, s[i]))

\* " ".join(words)
RECURSIVE join(_)
join(words) ==
    IF words = << >> THEN << >>
    ELSE IF Len(words) = 1 THEN words[1]
    ELSE words[1] \o <<" ">> \o join(Tail(words))

\* str.strip()
strip(s) ==
    LET keep == {i \in 1..Len(s) : s[i] \notin Whitespace}
    IN IF keep = {} THEN << >>
       ELSE LET a == CHOOSE i \in keep : \A j \in keep : i <= j
                b == CHOOSE i \in keep : \A j \in keep : i >= j
            IN SubSeq(s, a, b)

\* norm (line 891)
norm(s) == Upper(join(SplitFrom(s, 1, << >>)))

\* The literal `lit` stands at position i of T.
At(T, i, lit) ==
    /\ i >= 1
    /\ i + Len(lit) - 1 <= Len(T)
    /\ \A k \in 1..Len(lit) : T[i + k - 1] = lit[k]

\* `lit in T`
Contains(T, lit) == \E i \in 1..(Len(T) + 1) : At(T, i, lit)

\* The character at position i, "" outside the text.
CharAt(T, i) == IF i \in 1..Len(T) THEN T[i] ELSE ""

\* \s* matches exactly the positions a .. b - 1.
Spaces(T, a, b) == \A k \in a..(b - 1) : T[k] \in Whitespace

\* \s*-\s*\d+ matches at position j.
DashDigits(T, j) ==
    \E a \in j..Len(T) :
        /\ Spaces(T, j, a)
        /\ T[a] = "-"
        /\ \E b \in (a + 1)..Len(T) : Spaces(T, a + 1, b) /\ T[b] \in Digits

\* \b matches between positions k - 1 and k.
WordBoundary(T, k) ==
    LET WordChars == AZ09 \cup Range(Lower) \cup {"_"}
    IN (CharAt(T, k - 1) \in WordChars) # (CharAt(T, k) \in WordChars)

\* The token wherever it stands, without the look-arounds.
patNoGuards(T, secU) == \E i \in 1..Len(T) : At(T, i, secU)

\* (?<![A-Z0-9])secU(?![A-Z0-9])  (line 903)
pat(T, secU) ==
    \E i \in 1..Len(T) :
        /\ At(T, i, secU)
        /\ CharAt(T, i - 1) \notin AZ09
        /\ CharAt(T, i + Len(secU)) \notin AZ09

\* \bSEC(?:TION)?\s*[:\-]?\s*secU(?!\s*-\s*\d+)\b  (line 906)
pat1(T, secU) ==
    \E i \in 1..Len(T) :
        /\ WordBoundary(T, i)
        /\ At(T, i, <<"S", "E", "C">>)
        /\ \E p \in {i + 3} \cup (IF At(T, i + 3, <<"T", "I", "O", "N">>) THEN {i + 7} ELSE {}) :
           \E a \in p..(Len(T) + 1) :
              /\ Spaces(T, p, a)
              /\ \E c \in {a} \cup (IF CharAt(T, a) \in {":", "-"} THEN {a + 1} ELSE {}) :
                 \E q \in c..(Len(T) + 1) :
                    /\ Spaces(T, c, q)
                    /\ At(T, q, secU)
                    /\ ~DashDigits(T, q + Len(secU))
                    /\ WordBoundary(T, q + Len(secU))

\* \(\s*secU\s*\)  (line 907)
pat2(T, secU) ==
    \E i \in 1..Len(T) :
        /\ T[i] = "("
        /\ \E q \in (i + 1)..(Len(T) + 1) :
              /\ Spaces(T, i + 1, q)
              /\ At(T, q, secU)
              /\ \E r \in (q + Len(secU))..Len(T) :
                    Spaces(T, q + Len(secU), r) /\ T[r] = ")"

\* The bare token without the look-ahead for -<digit>.
pat3NoLookahead(T, secU) ==
    \E i \in 1..Len(T) :
        /\ At(T, i, secU)
        /\ CharAt(T, i - 1) \notin AZ09
        /\ CharAt(T, i + Len(secU)) \notin AZ09

\* (?<![A-Z0-9])secU(?!\s*-\s*\d+)(?![A-Z0-9])  (line 908)
pat3(T, secU) ==
    \E i \in 1..Len(T) :
        /\ At(T, i, secU)
        /\ CharAt(T, i - 1) \notin AZ09
        /\ ~DashDigits(T, i + Len(secU))
        /\ CharAt(T, i + Len(secU)) \notin AZ09

\* The code and semester tests (lines 895-898), the section test (lines
\* 900-914) and the session test (lines 916-918).
matches_event_text(txt, code, sem, sec, sess) ==
    LET T == norm(txt)
        secU == Upper(strip(sec))
    IN /\ code = << >> \/ Contains(T, Upper(code))
       /\ sem = << >> \/ Contains(T, <<"S", "E", "M", "E", "S", "T", "E", "R", " ">> \o Upper(sem))
       /\ \/ sec = << >>
          \/ IF "-" \in Range(secU)
             THEN pat(T, secU)
             ELSE pat1(T, secU) \/ pat2(T, secU) \/ pat3(T, secU)
       /\ IF /\ sess # << >>
             /\ strip(sess) # << >>
             /\ (sec = << >> \/ "-" \notin Range(strip(sec)))
          THEN Contains(T, <<"S", "E", "S", "S", "I", "O", "N", " ">> \o Upper(strip(sess)))
          ELSE TRUE

\* The sess argument main passes to the search (line 1315); None is << >>.
main_sess(class_section, session_no) ==
    IF "-" \notin Range(strip(class_section)) THEN session_no ELSE << >>

\* The criteria of a run: the configuration values COURSE_CODE, SEMESTER,
\* CLASS_SECTION, SESSION_NO as main hands them on (lines 1311-1316).
NoCriteria == [code |-> << >>, sem |-> << >>, sec |-> << >>, sess |-> << >>]

Criteria ==
    {[code |-> << >>, sem |-> << >>, sec |-> <<"B">>, sess |-> << >>],
     [code |-> << >>, sem |-> << >>, sec |-> <<"B">>, sess |-> <<"1">>],
     [code |-> << >>, sem |-> << >>, sec |-> <<"B", "-", "1">>, sess |-> << >>],
     [code |-> << >>, sem |-> << >>, sec |-> <<"B", "-", "1">>, sess |-> <<"1">>],
     [code |-> <<"C", "S", "E", " ", "3", "1", "2", "3">>, sem |-> <<"V">>, sec |-> <<"B">>, sess |-> << >>],
     [code |-> << >>, sem |-> << >>, sec |-> << >>, sess |-> <<"1">>]}

\* Tile texts: one of the Seeds followed by up to MaxAtoms of the Atoms.
ExampleTile == <<"O", "S", " ", "-", " ", "C", "S", "E", " ", "3", "1", "2", "3", " ", "S", "e", "m", "e", "s", "t", "e", "r", " ", "V", " ", "(", "B", ")">>

Seeds ==
    {<< >>,
     ExampleTile,
     <<"O", "S", " ", "-", " ", "C", "S", "E", " ", "3", "1", "2", "3", " ", "S", "e", "m", "e", "s", "t", "e", "r", " ", "V", " ", "B", "-", "1">>,
     <<"S", "e", "s", "s", "i", "o", "n", " ", " ", "1", " ">>,
     <<"(", " ", "B", " ">>,
     <<"S", "e", "c", "t", "i", "o", "n", " ", ":", " ">>}

Atoms ==
    {<<"B">>, <<"A">>, <<"1">>, <<"-">>, <<" ">>, <<"(">>, <<")">>,
     <<"S", "E", "C">>, <<"B", "-", "1">>}

(***************************************************************************)
(* aria_date_matches_selected (lines 991-1003) and the tile scan of        *)
(* scroll_day_panel_gradual (lines 1009-1029).  A tile is an anchor of the *)
(* day panel: its text, its aria-description, the day of the event it      *)
(* shows, and whether reading it raises (a stale element).                 *)
(***************************************************************************)
\* The character U+2013, which line 994 replaces by "-".
EnDash == "en dash"

MonthNames ==
    <<<<"J", "a", "n", "u", "a", "r", "y">>,
      <<"F", "e", "b", "r", "u", "a", "r", "y">>,
      <<"M", "a", "r", "c", "h">>,
      <<"A", "p", "r", "i", "l">>,
      <<"M", "a", "y">>,
      <<"J", "u", "n", "e">>,
      <<"J", "u", "l", "y">>,
      <<"A", "u", "g", "u", "s", "t">>,
      <<"S", "e", "p", "t", "e", "m", "b", "e", "r">>,
      <<"O", "c", "t", "o", "b", "e", "r">>,
      <<"N", "o", "v", "e", "m", "b", "e", "r">>,
      <<"D", "e", "c", "e", "m", "b", "e", "r">>>>

\* int() of a run of digits.
RECURSIVE IntOf(_)
IntOf(ds) ==
    LET val(c) == CHOOSE n \in 0..9 : <<"0", "1", "2", "3", "4", "5", "6", "7", "8", "9">>[n + 1] = c
    IN IF ds = << >> THEN 0
       ELSE 10 * IntOf(SubSeq(ds, 1, Len(ds) - 1)) + val(ds[Len(ds)])

\* The last position of the longest run of characters of S that starts at
\* position i; i - 1 when there is none.
RunEnd(T, i, S) ==
    CHOOSE e \in (i - 1)..Len(T) :
        /\ \A k \in i..e : T[k] \in S
        /\ e = Len(T) \/ T[e + 1] \notin S

\* The groups of ([A-Za-z]+)\s+(\d{1,2})\s+([A-Za-z]+),\s*(\d{4}) matched
\* from position i, << >> when the pattern does not match there.
AriaGroupsAt(T, i) ==
    LET Letters == Range(Lower) \cup Range(UpperCase)
        e1 == RunEnd(T, i, Letters)
        e2 == RunEnd(T, e1 + 1, Whitespace)
        e3 == RunEnd(T, e2 + 1, Digits)
        e4 == RunEnd(T, e3 + 1, Whitespace)
        e5 == RunEnd(T, e4 + 1, Letters)
        e6 == RunEnd(T, e5 + 2, Whitespace)
    IN IF /\ e1 >= i
          /\ e2 > e1
          /\ e3 - e2 \in {1, 2}
          /\ e4 > e3
          /\ e5 > e4
          /\ CharAt(T, e5 + 1) = ","
          /\ e6 + 4 <= Len(T)
          /\ \A k \in (e6 + 1)..(e6 + 4) : T[k] \in Digits
       THEN <<SubSeq(T, e2 + 1, e3), SubSeq(T, e4 + 1, e5), SubSeq(T, e6 + 1, e6 + 4)>>
       ELSE << >>

\* re.search: the groups of the leftmost match.
AriaSearch(T) ==
    LET starts == {i \in 1..Len(T) : AriaGroupsAt(T, i) # << >>}
    IN IF starts = {} THEN << >>
       ELSE AriaGroupsAt(T, CHOOSE i \in starts : \A j \in starts : i <= j)

\* datetime.strptime(f"{day} {mon} {yr}", "%d %B %Y").date(); NoDate when it
\* raises.
strptime(day, mon, yr) ==
    LET ms == {m \in 1..12 : Upper(MonthNames[m]) = Upper(mon)}
        DaysIn(y, m) ==
            IF m \in {4, 6, 9, 11} THEN 30
            ELSE IF m # 2 THEN 31
            ELSE IF y % 4 = 0 /\ (y % 100 # 0 \/ y % 400 = 0) THEN 29 ELSE 28
    IN IF ms = {} \/ yr < 1000 THEN NoDate
       ELSE LET m == CHOOSE x \in ms : TRUE
            IN IF day \in 1..DaysIn(yr, m) THEN [year |-> yr, month |-> m, day |-> day]
               ELSE NoDate

\* Without the parse: any description that names a date passes.
aria_any_date(aria_desc, selected_date) ==
    AriaSearch([i \in 1..Len(aria_desc) |-> IF aria_desc[i] = EnDash THEN "-" ELSE aria_desc[i]]) # << >>

aria_date_matches_selected(aria_desc, selected_date) ==
    LET txt == [i \in 1..Len(aria_desc) |-> IF aria_desc[i] = EnDash THEN "-" ELSE aria_desc[i]]
        m == AriaSearch(txt)
    IN /\ aria_desc # << >>
       /\ m # << >>
       /\ strptime(IntOf(m[1]), m[2], IntOf(m[3])) = selected_date

NoTile == [text |-> << >>, aria |-> << >>, day |-> NoDate, raises |-> FALSE]

\* The tiles the panel may render.  The descriptions, with the day each
\* names: the target day and another day in the form the page uses, the
\* target day with short names, a range that starts on another day, and
\* none.  The texts: two event titles and the first with a session.  One
\* tile has a blank title and one raises when it is read.
Tiles ==
    LET other == [TargetDate EXCEPT !.day = 6]
        target == [aria |-> <<"T", "h", "u", "r", "s", "d", "a", "y", " ", "5", " ", "J", "u", "n", "e", ",", " ", "2", "0", "2", "5">>, day |-> TargetDate]
        another == [aria |-> <<"F", "r", "i", "d", "a", "y", " ", "6", " ", "J", "u", "n", "e", ",", " ", "2", "0", "2", "5">>, day |-> other]
        short == [aria |-> <<"T", "h", "u", " ", "5", " ", "J", "u", "n", ",", " ", "2", "0", "2", "5">>, day |-> TargetDate]
        range == [aria |-> <<"F", "r", "i", "d", "a", "y", " ", "6", " ", "J", "u", "n", "e", ",", " ", "2", "0", "2", "5", " ">> \o <<EnDash>> \o
                           <<" ", "S", "a", "t", "u", "r", "d", "a", "y", " ", "7", " ", "J", "u", "n", "e", ",", " ", "2", "0", "2", "5">>,
                  day |-> other]
        none == [aria |-> << >>, day |-> other]
        texts == {ExampleTile,
                  <<"O", "S", " ", "-", " ", "C", "S", "E", " ", "3", "1", "2", "3", " ", "S", "e", "m", "e", "s", "t", "e", "r", " ", "V", " ", "B", "-", "1">>,
                  ExampleTile \o <<" ", "S", "e", "s", "s", "i", "o", "n", " ", "1">>}
        tile(t, a, raises) == [text |-> t, aria |-> a.aria, day |-> a.day, raises |-> raises]
    IN {tile(t, a, FALSE) : t \in texts, a \in {target, another}}
       \cup {tile(ExampleTile, a, FALSE) : a \in {short, range, none}}
       \cup {tile(<<" ">>, target, FALSE), tile(ExampleTile, target, TRUE)}

\* The test collect_candidates makes of one anchor (lines 1019-1028) under
\* the criteria c, sess being the argument main passes: a read that raises
\* or an empty title skips the anchor.
TileTest ==
    [a \in Tiles, c \in Criteria |->
        /\ ~a.raises
        /\ strip(a.text) # << >>
        /\ matches_event_text(strip(a.text), c.code, c.sem, c.sec, main_sess(c.sec, c.sess))
        /\ aria_date_matches_selected(a.aria, TargetDate)]

\* The inner collect_candidates of scroll_day_panel_gradual (lines
\* 1009-1029) over the tiles rendered now.
collect_tile_candidates(tiles, c) == SelectSeq(tiles, LAMBDA a : TileTest[a, c])

(***************************************************************************)
(* Errors.  An error is its message and the diagnostics the message        *)
(* carries: `carries` names those of label, data_dates and last_clicked    *)
(* that the text of the error holds.                                       *)
(***************************************************************************)
\* _sidebar_month_label (lines 232-257): <<month, year>>, the year 0 when
\* the label spells the month only; <<0, 0>> for None.
sidebar_month_label(pg) ==
    IF ~Present(pg) \/ pg.label = "none" THEN <<0, 0>>
    ELSE IF pg.label = "month" THEN <<MonthOfIndex(pg.shown), 0>>
    ELSE <<MonthOfIndex(pg.shown), (pg.shown - 1) \div 12>>

\* The [data-date] attributes of the sidebar (lines 1280-1289).
SidebarDataDates(pg) ==
    IF ~Present(pg) THEN << >>
    ELSE LET with == SelectSeq(pg.sidebar, LAMBDA n : n.dd # NoDate)
         IN [i \in 1..Len(with) |-> with[i].dd]

Error(msg, carries, label, data_dates, last_clicked) ==
    [msg |-> msg, carries |-> carries, label |-> label, data_dates |-> data_dates,
     last_clicked |-> last_clicked]

NoError == Error("none", {}, <<0, 0>>, << >>, NoDate)

\* line 649
DirectClickError == Error("could not click", {}, <<0, 0>>, << >>, NoDate)

\* line 759
NoCandidatesError == Error("no candidates", {}, <<0, 0>>, << >>, NoDate)

\* line 815: the Failed error spells the month label.
FailedError(pg) ==
    Error("could not click after retries", {"label"}, sidebar_month_label(pg), << >>, NoDate)

\* A diagnostic error of main that spells the label only.
DiagnosticLabelOnly(pg) ==
    Error("no day panel", {"label"}, sidebar_month_label(pg), << >>, NoDate)

\* lines 1277-1305: the diagnostic error of main.
DiagnosticError(pg) ==
    Error("no day panel", {"label", "data_dates", "last_clicked"},
          sidebar_month_label(pg), SidebarDataDates(pg), pg.marker)

(***************************************************************************)
(* History.                                                                *)
(*   fast      "idle", "running", "returned" or "raised": how the call of  *)
(*             click_calendar_date_fast stands;                            *)
(*   last      the most recent date click, what PanelVerifier said of it   *)
(*             ("unverified": no call followed it), and whether the click  *)
(*             wrote the marker;                                           *)
(*   bad       the elements whose last click failed verification or went   *)
(*             unverified; reclick: one of them was clicked again;         *)
(*   trail     the states of the chain control has entered, in order;      *)
(*   navFrom   the MonthIndex read when the running navigateTo began;      *)
(*   navClicks its step clicks so far; navLast the last of them:           *)
(*             <<requested, clicked control, distance to the target        *)
(*             before, distance after>>;                                   *)
(*   navNoCtl  the running navigateTo met a step without a control;        *)
(*   attempts  the candidates MonthNavAndClick has tried, in order;        *)
(*   picked    the candidate PrecheckUnambiguous chose to click, if any;   *)
(*   err       the error click_calendar_date_fast is raising;              *)
(*   verdict   what a call of panel_opened_ok over a failing port gave;    *)
(*   reads     the signatures wait_for_events_to_settle has read, in order; *)
(*   match     what matches_event_text returned;                           *)
(*   requested the scrollTop values the event search has asked for, in     *)
(*             order, each with the scrollTop, scrollHeight and            *)
(*             clientHeight read before it; grace: its scans after the     *)
(*             bottom;                                                     *)
(*   outcomes  for each absentee processed, in order: the identifier, the  *)
(*             result of process_one_absentee, the clicks on its checkbox  *)
(*             and the ticks the call took; ticked: a click fell on an     *)
(*             unchecked checkbox; summary: the counts and the list the    *)
(*             summary printed;                                            *)
(*   search, touched  the event search has started; an attendance checkbox *)
(*             has been touched;                                           *)
(*   driver    the browser session: "none", "open", or "quit" once         *)
(*             driver.quit() has been called; dom: a DOM operation has     *)
(*             been issued; exit: the exit status, -1 while running;       *)
(*   mutated   a click or a navigation step has changed the page since     *)
(*             collect_candidates last ran; staleUse: a candidate was      *)
(*             chosen for a click while that was so;                       *)
(*   nudge     NudgeRetry: done: its two steps have been made; from: the   *)
(*             month shown before them; first, second: the control each    *)
(*             step clicked; collected: the collection after them has run; *)
(*             clicks: the candidates clicked since.                       *)
(*   via       the state of click_calendar_date_fast that returned, 0 when *)
(*             the function raised or made the direct click; steps: the    *)
(*             navigation clicks of that call.                             *)
(*   firstScan what the scan before the loop of scroll_day_panel_gradual   *)
(*             gave: "hit", "miss" or "raised".                            *)
(*   operator  main has read a line the operator typed.                    *)
(***************************************************************************)
InitHist ==
    [fast |-> "idle", last |-> [elem |-> NoElem, ver |-> "none", marked |-> FALSE],
     bad |-> {},
     reclick |-> FALSE, trail |-> << >>, navFrom |-> 0, navClicks |-> 0,
     navLast |-> <<"none", "none", 0, 0>>, navNoCtl |-> FALSE, attempts |-> << >>,
     picked |-> << >>, err |-> NoError, verdict |-> "none", reads |-> << >>,
     match |-> "none", requested |-> << >>, grace |-> 0, outcomes |-> << >>,
     ticked |-> FALSE, summary |-> << >>, search |-> FALSE,
     touched |-> FALSE, driver |-> "none", dom |-> FALSE, exit |-> -1,
     mutated |-> FALSE, staleUse |-> FALSE,
     nudge |-> [done |-> FALSE, from |-> 0, first |-> "none", second |-> "none",
                collected |-> FALSE, clicks |-> 0],
     via |-> 0, steps |-> 0, firstScan |-> "none", operator |-> FALSE]

InitLoc ==
    [tgt |-> TargetDate, pre_cands |-> << >>, candidates |-> << >>,
     candidates_sorted |-> << >>, click_order |-> << >>, idx |-> 1, tried |-> 0,
     nav_count |-> 0, shown_month_index |-> 0]

InitMloc ==
    [panel |-> FALSE, stage |-> 0, polls |-> 0, error |-> "none", diag |-> NoError,
     settle |-> InitSettle, txt |-> << >>, atoms |-> 0, crit |-> NoCriteria,
     target |-> NoTile, scrolls |-> 0, seen_bottom |-> FALSE,
     absentees |-> << >>, i |-> 1, t |-> 0, clicks |-> 0, result |-> "none",
     unticked_ids |-> << >>, not_found |-> << >>, raw |-> << >>, parsed |-> << >>]

RecordClick(h, elem, ver, marked) ==
    [h EXCEPT !.last = [elem |-> elem, ver |-> ver, marked |-> marked],
              !.reclick = @ \/ elem \in h.bad,
              !.bad = IF ver = "ok" THEN @ \ {elem} ELSE @ \cup {elem}]

Dist(a, b) == IF a >= b THEN a - b ELSE b - a

target_month_index == MonthIndexOf(TargetDate)

\* What a click script that does not assign window.__slcm_last_clicked_date
\* passes for the marker.
KeepMarker == [year |-> -1, month |-> 0, day |-> 0]

\* A click on elem: the script writes the marker mk unless mk is KeepMarker,
\* and the page answers with some day panel; with `verifies`,
\* panel_opened_ok is then called on the page as it is after the click.
Click(elem, mk, verifies, pcOk, pcFail, h) ==
    \E dp \in PanelStates :
        LET pg == [page EXCEPT !.dayPanel = dp,
                               !.marker = IF mk = KeepMarker THEN @ ELSE mk]
            ok == panel_opened_ok(pg)
        IN /\ page' = pg
           /\ hist' = [RecordClick(h, elem,
                            IF ~verifies THEN "unverified" ELSE IF ok THEN "ok" ELSE "fail",
                            mk # KeepMarker)
                          EXCEPT !.mutated = @ \/ pg # page]
           /\ pc' = IF verifies /\ ~ok THEN pcFail ELSE pcOk

NoClick(pcNext, h) == page' = page /\ hist' = h /\ pc' = pcNext

\* click_fragment(html) and panel_opened_ok() (lines 679, 727, 783-794).
ClickFragmentAndVerify(frag, pcOk, pcFail, h) ==
    LET r == click_fragment(page, frag)
        h2 == [h EXCEPT !.staleUse = @ \/ h.mutated]
    IN IF r.ok THEN Click(r.elem, r.marker, TRUE, pcOk, pcFail, h2)
       ELSE NoClick(pcFail, h2)

Enter(h, state) == [h EXCEPT !.trail = Append(@, state)]

BeginNav(h, from) ==
    [h EXCEPT !.navFrom = from, !.navClicks = 0, !.navLast = <<"none", "none", 0, 0>>,
              !.navNoCtl = FALSE]

\* What of the history outlives a call of click_calendar_date_fast.
Outlives(h, how) ==
    [InitHist EXCEPT !.fast = how, !.last = h.last, !.bad = h.bad, !.reclick = h.reclick,
                     !.via = IF how = "returned" /\ h.trail # << >>
                             THEN h.trail[Len(h.trail)] ELSE 0,
                     !.steps = h.navClicks]

(***************************************************************************)
(* click_calendar_date_fast                                                *)
(***************************************************************************)
\* lines 618-656: without a target date the direct click, which returns
\* without a verification; else the first collection.
FastEntry ==
    /\ pc = "f_entry"
    /\ UNCHANGED <<ret, mloc>>
    /\ IF loc.tgt = NoDate
       THEN LET e == FirstDayCell(page, DisabledDirect)
            IN /\ loc' = loc
               /\ IF e # NoElem
                  THEN Click(e, KeepMarker, FALSE, "f_return", "f_return",
                             [hist EXCEPT !.fast = "running"])
                  ELSE NoClick("f_raise", [hist EXCEPT !.fast = "running",
                                                       !.err = DirectClickError])
       ELSE /\ loc' = [loc EXCEPT !.pre_cands =
                          collect_candidates(Present(page), page.sidebar, page.wtop, loc.tgt)]
            /\ NoClick("f_exact", [hist EXCEPT !.fast = "running", !.mutated = FALSE])

\* A PrecheckExact that steps the navigator instead of clicking a candidate.
PrecheckExactAfterStep ==
    /\ pc = "f_exact"
    /\ pc' = "f_global"
    /\ LET control == StepControl(page.nav, "next")
       IN /\ page' = [page EXCEPT !.shown = MonthAfter(@, control),
                                  !.stale = @ \/ control # "none"]
          /\ hist' = [Enter(hist, 1) EXCEPT !.navClicks = IF control = "none" THEN @ ELSE @ + 1,
                                            !.mutated = @ \/ page' # page]
    /\ UNCHANGED <<ret, loc, mloc>>

\* lines 673-681: state 1, PrecheckExact.
PrecheckExact ==
    /\ pc = "f_exact"
    /\ UNCHANGED <<ret, loc, mloc>>
    /\ LET exact_now == SelectSeq(loc.pre_cands, LAMBDA c : c.dataDate # NoDate /\ c.dataDate = loc.tgt)
           h == Enter(hist, 1)
       IN IF exact_now # << >>
          THEN ClickFragmentAndVerify(TopMost(exact_now).html, "f_return", "f_global", h)
          ELSE NoClick("f_global", h)

\* lines 683-703: state 2, PrecheckGlobal; the click does not write the marker.
PrecheckGlobal ==
    /\ pc = "f_global"
    /\ UNCHANGED <<ret, loc, mloc>>
    /\ LET e == GlobalDataDateElem(page, loc.tgt)
           h == Enter(hist, 2)
       IN IF e # NoElem
          THEN Click(e, KeepMarker, TRUE, "f_return", "f_unamb", h)
          ELSE NoClick("f_unamb", h)

\* lines 705-738: state 3, PrecheckUnambiguous, or the hand-off to
\* click_calendar_date_robust when no non-disabled candidate is unambiguous.
PrecheckUnambiguous ==
    /\ pc = "f_unamb"
    /\ UNCHANGED <<loc, mloc>>
    /\ LET non_disabled_now == SelectSeq(loc.pre_cands, LAMBDA c : ~c.isDisabled)
           unamb == SelectSeq(non_disabled_now, LAMBDA c : unambiguous_for_target(c, loc.tgt))
           h == Enter(hist, 3)
       IN IF non_disabled_now = << >>
          THEN ret' = ret /\ NoClick("f_nav", h)
          ELSE IF unamb # << >>
          THEN ret' = ret /\ ClickFragmentAndVerify(TopMost(unamb).html, "f_return", "f_nav",
                                                    [h EXCEPT !.picked = <<TopMost(unamb)>>])
          ELSE ret' = <<"fast">> \o ret /\ NoClick("r_entry", h)

(***************************************************************************)
(* click_calendar_date_robust                                              *)
(***************************************************************************)
\* lines 830-834
RobustEntry ==
    /\ pc = "r_entry"
    /\ pc' = "r_nav"
    /\ loc' = [loc EXCEPT !.nav_count = 0,
                          !.shown_month_index = get_shown_month_index(page.shown, page.label)]
    /\ hist' = BeginNav(hist, loc'.shown_month_index)
    /\ UNCHANGED <<page, ret, mloc>>

\* The navigation loop without its step budget.
NavLoopNoBudget(pcLoop, pcAfter) ==
    IF loc.shown_month_index # target_month_index
    THEN LET direction == IF target_month_index > loc.shown_month_index THEN "next" ELSE "prev"
             control == StepControl(page.nav, direction)
             shown2 == MonthAfter(page.shown, control)
         IN IF control = "none"
            THEN /\ pc' = pcAfter
                 /\ hist' = [hist EXCEPT !.navNoCtl = TRUE]
                 /\ UNCHANGED <<page, loc>>
            ELSE /\ pc' = pcLoop
                 /\ page' = [page EXCEPT !.shown = shown2, !.stale = TRUE]
                 /\ loc' = [loc EXCEPT !.nav_count = @ + 1,
                               !.shown_month_index = get_shown_month_index(shown2, page.label)]
                 /\ hist' = [hist EXCEPT !.navClicks = @ + 1, !.mutated = TRUE,
                               !.navLast = <<direction, control,
                                             Dist(page.shown, target_month_index),
                                             Dist(shown2, target_month_index)>>]
    ELSE /\ pc' = pcAfter
         /\ UNCHANGED <<page, loc, hist>>

\* One evaluation of the loop condition and, when it holds, one body of the
\* navigation loop (lines 746-754, 835-843).
NavLoop(pcLoop, pcAfter) ==
    IF loc.shown_month_index # target_month_index /\ loc.nav_count < MAX_NAV
    THEN LET direction == IF target_month_index > loc.shown_month_index THEN "next" ELSE "prev"
             control == StepControl(page.nav, direction)
             shown2 == MonthAfter(page.shown, control)
         IN IF control = "none"
            THEN /\ pc' = pcAfter
                 /\ hist' = [hist EXCEPT !.navNoCtl = TRUE]
                 /\ UNCHANGED <<page, loc>>
            ELSE /\ pc' = pcLoop
                 /\ page' = [page EXCEPT !.shown = shown2, !.stale = TRUE]
                 /\ loc' = [loc EXCEPT !.nav_count = @ + 1,
                               !.shown_month_index = get_shown_month_index(shown2, page.label)]
                 /\ hist' = [hist EXCEPT !.navClicks = @ + 1, !.mutated = TRUE,
                               !.navLast = <<direction, control,
                                             Dist(page.shown, target_month_index),
                                             Dist(shown2, target_month_index)>>]
    ELSE /\ pc' = pcAfter
         /\ UNCHANGED <<page, loc, hist>>

RobustNav ==
    /\ pc = "r_nav"
    /\ NavLoop("r_nav", "r_click")
    /\ UNCHANGED <<ret, mloc>>

\* lines 848-879: the click of the first enabled day cell; True, or the
\* error.  The caller is fast (lines 733-738: return, or fall through on the
\* error) or main (lines 1210-1218).
RobustClick ==
    /\ pc = "r_click"
    /\ ~page.stale
    /\ ret' = Tail(ret)
    /\ UNCHANGED loc
    /\ LET e == FirstDayCell(page, DisabledRobust)
           fromFast == Head(ret) = "fast"
       IN IF e # NoElem
          THEN /\ Click(e, KeepMarker, FALSE, IF fromFast THEN "f_return" ELSE "m_wait",
                        "r_click", hist)
               /\ mloc' = IF fromFast THEN mloc ELSE [mloc EXCEPT !.stage = 1, !.polls = 0]
          ELSE /\ NoClick(IF fromFast THEN "f_nav" ELSE "m_fb2", hist)
               /\ mloc' = mloc

(***************************************************************************)
(* click_calendar_date_fast, continued: states 4 to 7.                     *)
(***************************************************************************)
\* lines 741-745: state 4, MonthNavAndClick, begins.
FastNavBegin ==
    /\ pc = "f_nav"
    /\ pc' = "f_navloop"
    /\ loc' = [loc EXCEPT !.nav_count = 0,
                          !.shown_month_index = get_shown_month_index(page.shown, page.label)]
    /\ hist' = BeginNav(Enter(hist, 4), loc'.shown_month_index)
    /\ UNCHANGED <<page, ret, mloc>>

FastNav ==
    /\ pc = "f_navloop"
    /\ NavLoop("f_navloop", "f_collect")
    /\ UNCHANGED <<ret, mloc>>

\* lines 757-759: where control goes after the collection.
AfterCollect(cands) == IF cands = << >> THEN "f_raise" ELSE "f_try"

\* lines 756-774: the collection after navigation, the sort, the click order.
FastCollect ==
    /\ pc = "f_collect"
    /\ ~page.stale
    /\ LET cands == collect_candidates(Present(page), page.sidebar, page.wtop, loc.tgt)
           sorted == candidates_sorted_of(cands)
       IN /\ loc' = [loc EXCEPT !.candidates = cands, !.candidates_sorted = sorted,
                                !.click_order = ClickOrder(sorted), !.idx = 1, !.tried = 0]
          /\ pc' = AfterCollect(cands)
    /\ hist' = [hist EXCEPT !.attempts = << >>, !.mutated = FALSE,
                            !.err = IF pc' = "f_raise" THEN NoCandidatesError ELSE @]
    /\ UNCHANGED <<page, ret, mloc>>

\* lines 776-794: one iteration of the loop over click_order.
FastTry ==
    /\ pc = "f_try"
    /\ UNCHANGED <<ret, mloc>>
    /\ IF loc.idx > Len(loc.click_order) \/ loc.tried >= MaxTries(loc.click_order)
       THEN loc' = loc /\ NoClick("f_grid", hist)
       ELSE /\ loc' = [loc EXCEPT !.idx = @ + 1, !.tried = @ + 1]
            /\ ClickFragmentAndVerify(loc.click_order[loc.idx].html, "f_return", "f_try",
                   [hist EXCEPT !.attempts = Append(@, loc.click_order[loc.idx])])

\* lines 796-802: state 5, MainGridFallback.
FastGrid ==
    /\ pc = "f_grid"
    /\ UNCHANGED <<ret, loc, mloc>>
    /\ LET e == click_main_grid(page)
           h == Enter(hist, 5)
       IN IF e # NoElem
          THEN Click(e, KeepMarker, TRUE, "f_return", "f_nudge", h)
          ELSE NoClick("f_nudge", h)

\* lines 804-809: state 6, NudgeRetry: a next and a prev step, then the
\* collection and the sort.
FastNudge ==
    /\ pc = "f_nudge"
    /\ pc' = "f_nudge_collect"
    /\ LET c1 == StepControl(page.nav, "next")
           shown1 == MonthAfter(page.shown, c1)
           c2 == StepControl(page.nav, "prev")
           shown2 == MonthAfter(shown1, c2)
       IN /\ page' = [page EXCEPT !.shown = shown2,
                                  !.stale = @ \/ c1 # "none" \/ c2 # "none"]
          /\ hist' = [Enter(hist, 6) EXCEPT
                         !.mutated = @ \/ c1 # "none" \/ c2 # "none",
                         !.nudge = [done |-> TRUE, from |-> page.shown, first |-> c1,
                                    second |-> c2, collected |-> FALSE, clicks |-> 0]]
    /\ UNCHANGED <<ret, loc, mloc>>

FastNudgeCollect ==
    /\ pc = "f_nudge_collect"
    /\ ~page.stale
    /\ pc' = "f_nudge_try"
    /\ LET cands == collect_candidates(Present(page), page.sidebar, page.wtop, loc.tgt)
       IN loc' = [loc EXCEPT !.candidates = cands,
                             !.candidates_sorted = candidates_sorted_of(cands), !.idx = 1]
    /\ hist' = [hist EXCEPT !.mutated = FALSE, !.nudge.collected = TRUE]
    /\ UNCHANGED <<page, ret, mloc>>

\* lines 810-815: the loop over candidates_sorted, then state 7, Failed.
FastNudgeTry ==
    /\ pc = "f_nudge_try"
    /\ UNCHANGED <<ret, mloc>>
    /\ IF loc.idx > Len(loc.candidates_sorted)
       THEN loc' = loc /\ NoClick("f_raise", [hist EXCEPT !.err = FailedError(page)])
       ELSE /\ loc' = [loc EXCEPT !.idx = @ + 1]
            /\ IF ~loc.candidates_sorted[loc.idx].isDisabled
               THEN ClickFragmentAndVerify(loc.candidates_sorted[loc.idx].html,
                       "f_return", "f_nudge_try",
                       IF click_fragment(page, loc.candidates_sorted[loc.idx].html).ok
                       THEN [hist EXCEPT !.nudge.clicks = @ + 1] ELSE hist)
               ELSE NoClick("f_nudge_try", hist)

\* The function returns to its caller: main (line 1200), or the top when it
\* was called on its own.
FastReturn ==
    /\ pc = "f_return"
    /\ pc' = IF Head(ret) = "main" THEN "m_wait" ELSE "done"
    /\ ret' = Tail(ret)
    /\ hist' = Outlives(hist, "returned")
    /\ mloc' = [mloc EXCEPT !.stage = 0, !.polls = 0]
    /\ loc' = InitLoc
    /\ UNCHANGED page

\* The function raises (lines 649, 759, 815); main swallows the error
\* (lines 1201-1203).
FastRaise ==
    /\ pc = "f_raise"
    /\ pc' = IF Head(ret) = "main" THEN "m_wait" ELSE "done"
    /\ ret' = Tail(ret)
    /\ hist' = Outlives(hist, "raised")
    /\ mloc' = [mloc EXCEPT !.stage = 0, !.polls = 0]
    /\ loc' = InitLoc
    /\ UNCHANGED page

(***************************************************************************)
(* main (lines 1184-1551): the date selection with its fallbacks, then the *)
(* event search, the attendance updates, the submission and the teardown.  *)
(***************************************************************************)
\* line 1200
MainStart ==
    /\ pc = "m_start"
    /\ pc' = "f_entry"
    /\ ret' = <<"main">>
    /\ UNCHANGED <<page, loc, mloc, hist>>

\* A main that goes on to the event search whatever the wait returned.
AfterWaitNoCheck(found, stage) == "m_settle"

\* Where main goes after try_wait_panel (lines 1206-1278): on with the
\* panel, else to the next fallback, else to the diagnostic error.
AfterWait(found, stage) ==
    IF found THEN "m_settle"
    ELSE IF stage = 0 THEN "m_fb1"
    ELSE IF stage = 1 THEN "m_fb2"
    ELSE IF stage = 2 THEN "m_fb3"
    ELSE "m_raise"

\* wait_for_day_panel_ready (lines 951-962), one poll: the panel, or the
\* timeout after MaxPolls polls.
MainWait ==
    /\ pc = "m_wait"
    /\ IF DayPanelReady(page)
       THEN /\ mloc' = [mloc EXCEPT !.panel = TRUE]
            /\ pc' = AfterWait(TRUE, mloc.stage)
       ELSE IF mloc.polls + 1 >= MaxPolls
       THEN /\ mloc' = [mloc EXCEPT !.panel = FALSE, !.polls = 0]
            /\ pc' = AfterWait(FALSE, mloc.stage)
       ELSE /\ mloc' = [mloc EXCEPT !.polls = @ + 1]
            /\ pc' = "m_wait"
    /\ UNCHANGED <<page, ret, loc, hist>>

\* The page while main waits: the event list container of a panel arrives.
PageLoads ==
    /\ pc = "m_wait"
    /\ page.dayPanel = "nolist"
    /\ page' = [page EXCEPT !.dayPanel = "target"]
    /\ UNCHANGED <<pc, ret, loc, mloc, hist>>

\* lines 1208-1218: fallback 1, click_calendar_date_robust.
MainFallbackRobust ==
    /\ pc = "m_fb1"
    /\ pc' = "r_entry"
    /\ ret' = <<"main">>
    /\ UNCHANGED <<page, loc, mloc, hist>>

\* lines 1220-1245: fallback 2, any element with the exact data-date.
MainFallbackDataDate ==
    /\ pc = "m_fb2"
    /\ ~page.stale
    /\ mloc' = [mloc EXCEPT !.stage = 2, !.polls = 0]
    /\ UNCHANGED <<ret, loc>>
    /\ LET e == GlobalDataDateElem(page, TargetDate)
       IN IF e # NoElem THEN Click(e, KeepMarker, FALSE, "m_wait", "m_wait", hist)
          ELSE NoClick("m_wait", hist)

\* lines 1247-1275: fallback 3, the first enabled sidebar cell with the day.
MainFallbackSidebar ==
    /\ pc = "m_fb3"
    /\ ~page.stale
    /\ mloc' = [mloc EXCEPT !.stage = 3, !.polls = 0]
    /\ UNCHANGED <<ret, loc>>
    /\ LET e == FirstDayCell(page, DisabledSidebarFallback)
       IN IF e # NoElem THEN Click(e, KeepMarker, FALSE, "m_wait", "m_wait", hist)
          ELSE NoClick("m_wait", hist)

\* lines 1277-1305: the diagnostic error.
MainRaise ==
    /\ pc = "m_raise"
    /\ pc' = "m_teardown"
    /\ mloc' = [mloc EXCEPT !.error = "no_panel", !.diag = DiagnosticError(page)]
    /\ UNCHANGED <<page, ret, loc, hist>>

\* lines 1307-1308
MainSettle ==
    /\ pc = "m_settle"
    /\ pc' = "m_search"
    /\ UNCHANGED <<page, ret, loc, mloc, hist>>

\* lines 1310-1326: the event search and the opening of the tile; no tile
\* is an error.
MainEventSearch ==
    /\ pc = "m_search"
    /\ hist' = [hist EXCEPT !.search = TRUE]
    /\ \E found \in BOOLEAN :
          /\ pc' = IF found THEN "m_attendance" ELSE "m_teardown"
          /\ mloc' = IF found THEN mloc ELSE [mloc EXCEPT !.error = "no_tile"]
    /\ UNCHANGED <<page, ret, loc>>

\* lines 1368-1482: the absentees' checkboxes.
MainAttendance ==
    /\ pc = "m_attendance"
    /\ pc' = "m_submit"
    /\ \E t \in BOOLEAN : hist' = [hist EXCEPT !.touched = t]
    /\ UNCHANGED <<page, ret, loc, mloc>>

\* lines 1484-1540
MainSubmit ==
    /\ pc = "m_submit"
    /\ pc' = "m_teardown"
    /\ UNCHANGED <<page, ret, loc, mloc, hist>>

\* lines 1542-1551
MainTeardown ==
    /\ pc = "m_teardown"
    /\ pc' = "done"
    /\ UNCHANGED <<page, ret, loc, mloc, hist>>

(***************************************************************************)
(* The pages the runs start from.                                          *)
(***************************************************************************)
SeqsUpTo(S, n) == UNION {[1..k -> S] : k \in 0..n}

\* Day cells of the runs of main: the exact data-date cell, a plain cell, a
\* cell of an adjacent month, a cell labelled with the full date, a cell
\* dated in the target's month.
CellExact == Node(TRUE, TargetDate, "", 0, "")
CellPlain == Node(TRUE, NoDate, "", 1, "")
CellOutside == Node(TRUE, NoDate, "outside", 0, "")
CellPartial == Node(TRUE, OtherDayDate, "disabled", 2, "")
Cells == {CellExact, CellPlain, CellOutside, Node(TRUE, NoDate, "", 1, "full"), CellPartial}

\* What a re-rendered sidebar may hold.
Renderings == {<< >>, <<CellExact>>, <<CellPlain>>, <<CellOutside, CellPlain>>}

PageOf(nav, wrapped, sidebar, wtop, shown, label, gridDD, gridMatch, blockSpans) ==
    [nav |-> nav, wrapped |-> wrapped, sidebar |-> sidebar, wtop |-> wtop, gen |-> 0,
     stale |-> FALSE, shown |-> shown, label |-> label, gridDD |-> gridDD,
     gridMatch |-> gridMatch, blockSpans |-> blockSpans, dayPanel |-> "none",
     marker |-> NoDate, fails |-> {}, tiles |-> << >>,
     list |-> [top |-> 0, h |-> 0, c |-> 0],
     rows |-> [id \in {} |-> "none"], container |-> FALSE, headings |-> << >>,
     table |-> [top |-> 0, max |-> 0, at |-> [id \in {} |-> 0]], doc |-> << >>]

\* The sidebar re-renders after navigation clicks, before it is read again.
Render ==
    /\ page.stale
    /\ pc \in {"f_collect", "f_nudge_collect", "r_click", "m_fb2", "m_fb3"}
    /\ \E sb \in Renderings :
          page' = [page EXCEPT !.sidebar = sb, !.gen = @ + 1, !.stale = FALSE]
    /\ UNCHANGED <<pc, ret, loc, mloc, hist>>

(***************************************************************************)
(* Spec: a run of main, or a call of click_calendar_date_fast without a    *)
(* target date.                                                            *)
(***************************************************************************)
Init ==
    /\ \E nav \in {NavNone, NavSlds}, wrapped \in BOOLEAN,
          sidebar \in SeqsUpTo(Cells, MaxCells),
          off \in {-1, 0}, grid \in BOOLEAN, blockSpans \in BOOLEAN :
          page = PageOf(nav, wrapped, sidebar, 0, target_month_index + off, "full",
                        grid, grid, blockSpans)
    /\ \/ pc = "m_start" /\ ret = << >> /\ loc = InitLoc
       \/ pc = "f_entry" /\ ret = <<"top">> /\ loc = [InitLoc EXCEPT !.tgt = NoDate]
    /\ mloc = InitMloc
    /\ hist = InitHist

Next ==
    \/ MainStart \/ FastEntry \/ PrecheckExact \/ PrecheckGlobal \/ PrecheckUnambiguous
    \/ RobustEntry \/ RobustNav \/ RobustClick
    \/ FastNavBegin \/ FastNav \/ Render \/ FastCollect \/ FastTry \/ FastGrid
    \/ FastNudge \/ FastNudgeCollect \/ FastNudgeTry \/ FastReturn \/ FastRaise
    \/ MainWait \/ PageLoads \/ MainFallbackRobust \/ MainFallbackDataDate
    \/ MainFallbackSidebar \/ MainRaise \/ MainSettle \/ MainEventSearch
    \/ MainAttendance \/ MainSubmit \/ MainTeardown

Spec == Init /\ [][Next]_vars

(***************************************************************************)
(* SpecNav: navigateTo alone, the loop of click_calendar_date_fast (lines  *)
(* 741-754) or of click_calendar_date_robust (lines 830-846), from every   *)
(* navigation configuration, shown month and month label.                  *)
(***************************************************************************)
InitNav ==
    /\ \E nav \in NavConfigs, off \in (0 - MaxDist)..MaxDist, label \in LabelKinds :
          page = PageOf(nav, FALSE, <<CellPlain>>, 0, target_month_index + off, label,
                        FALSE, FALSE, FALSE)
    /\ pc \in {"f_nav", "r_entry"}
    /\ ret = <<"top">>
    /\ loc = InitLoc
    /\ mloc = InitMloc
    /\ hist = InitHist

NextNav == FastNavBegin \/ FastNav \/ RobustEntry \/ RobustNav

SpecNav == InitNav /\ [][NextNav]_vars

(***************************************************************************)
(* SpecCollect: collect_candidates and the sort of its result (lines       *)
(* 336-405, 756-771) from every sidebar of up to MaxNodes nodes: each node *)
(* has the day's text or not, any date attribute, is disabled or not, and  *)
(* sits at any offset; the wrapper's own offset varies too.                *)
(***************************************************************************)
Tops == {0, 1}

CollectNodes ==
    {Node(TRUE, dd, cls, rtop, "") : dd \in DataDates, cls \in {"", "disabled"}, rtop \in Tops}
    \cup {Node(FALSE, NoDate, "", 0, "")}

InitCollect ==
    /\ \E nav \in {NavNone, NavNoWrap}, sidebar \in SeqsUpTo(CollectNodes, MaxNodes),
          wtop \in Tops :
          /\ ~nav.wrap => sidebar = << >> /\ wtop = 0
          /\ page = PageOf(nav, FALSE, sidebar, wtop, target_month_index, "full",
                           FALSE, FALSE, FALSE)
    /\ pc = "f_collect"
    /\ ret = <<"top">>
    /\ loc = InitLoc
    /\ mloc = InitMloc
    /\ hist = InitHist

NextCollect == FastCollect

SpecCollect == InitCollect /\ [][NextCollect]_vars

(***************************************************************************)
(* SpecTry: the click loop of MonthNavAndClick (lines 756-794) from every  *)
(* sidebar of up to MaxNodes day cells.                                    *)
(***************************************************************************)
TryNodes ==
    {Node(TRUE, dd, cls, rtop, "") :
        dd \in {NoDate, TargetDate, OtherDayDate}, cls \in {"", "disabled"}, rtop \in Tops}

InitTry ==
    /\ \E sidebar \in SeqsUpTo(TryNodes, MaxNodes) :
          page = PageOf(NavNone, FALSE, sidebar, 0, target_month_index, "full",
                        FALSE, FALSE, FALSE)
    /\ pc = "f_collect"
    /\ ret = <<"top">>
    /\ loc = InitLoc
    /\ mloc = InitMloc
    /\ hist = InitHist

NextTry == FastCollect \/ FastTry

SpecTry == InitTry /\ [][NextTry]_vars

(***************************************************************************)
(* SpecPrecheck: the three prechecks (lines 652-738) from every sidebar of *)
(* up to MaxCells day cells, each with or without the target's data-date,  *)
(* disabled or not, and with a label that names the target's month, its    *)
(* year, both or neither.                                                  *)
(***************************************************************************)
PrecheckNodes ==
    {Node(TRUE, dd, cls, 0, aria) :
        dd \in {NoDate, TargetDate}, cls \in {"", "disabled"}, aria \in AriaKinds}

InitPrecheck ==
    /\ \E sidebar \in SeqsUpTo(PrecheckNodes, MaxCells), off \in {-1, 0} :
          page = PageOf(NavSlds, FALSE, sidebar, 0, target_month_index + off, "full",
                        FALSE, FALSE, FALSE)
    /\ pc = "f_entry"
    /\ ret = <<"top">>
    /\ loc = InitLoc
    /\ mloc = InitMloc
    /\ hist = InitHist

NextPrecheck == FastEntry \/ PrecheckExact \/ PrecheckGlobal \/ PrecheckUnambiguous

SpecPrecheck == InitPrecheck /\ [][NextPrecheck]_vars

(***************************************************************************)
(* SpecNudge: NudgeRetry alone (lines 804-815) from every navigation       *)
(* configuration and every sidebar of up to MaxCells day cells.            *)
(***************************************************************************)
InitNudge ==
    /\ \E nav \in NavConfigs, sidebar \in SeqsUpTo(Cells, MaxCells) :
          page = PageOf(nav, FALSE, sidebar, 0, target_month_index, "full",
                        FALSE, FALSE, FALSE)
    /\ pc = "f_nudge"
    /\ ret = <<"top">>
    /\ loc = InitLoc
    /\ mloc = InitMloc
    /\ hist = [InitHist EXCEPT !.fast = "running"]

NextNudge == FastNudge \/ Render \/ FastNudgeCollect \/ FastNudgeTry

SpecNudge == InitNudge /\ [][NextNudge]_vars

(***************************************************************************)
(* SpecVerify: one call of panel_opened_ok (lines 476-616) on every page   *)
(* and with every set of failing calls into the driver.                    *)
(***************************************************************************)
VerifyPanel ==
    /\ pc = "v_call"
    /\ pc' = "v_done"
    /\ hist' = [hist EXCEPT !.verdict = panel_opened_ok_port(page, page.fails)]
    /\ UNCHANGED <<page, ret, loc, mloc>>

InitVerify ==
    /\ \E sidebar \in {<<CellExact>>, <<CellPartial>>}, blockSpans \in BOOLEAN,
          dp \in PanelStates, mk \in {NoDate, TargetDate, OtherDayDate},
          fails \in SUBSET PortCalls :
          page = [PageOf(NavNone, FALSE, sidebar, 0, target_month_index, "full",
                         FALSE, FALSE, blockSpans)
                    EXCEPT !.dayPanel = dp, !.marker = mk, !.fails = fails]
    /\ pc = "v_call"
    /\ ret = <<"top">>
    /\ loc = InitLoc
    /\ mloc = InitMloc
    /\ hist = InitHist

NextVerify == VerifyPanel

SpecVerify == InitVerify /\ [][NextVerify]_vars

(***************************************************************************)
(* SpecSettle: one call of wait_for_events_to_settle (lines 964-989) with  *)
(* the timeout SettleTimeout, against every sequence of readings.          *)
(***************************************************************************)
\* The loop test (line 968) and, inside the timeout, one reading and body.
SettlePoll ==
    /\ pc = "s_poll"
    /\ IF mloc.settle.t < SettleTimeout
       THEN \E metrics \in Readings :
               /\ mloc' = [mloc EXCEPT !.settle = SettleStep(@, metrics)]
               /\ hist' = [hist EXCEPT !.reads = Append(@, metrics)]
               /\ pc' = IF mloc'.settle.result = "running" THEN "s_poll" ELSE "s_done"
       ELSE /\ mloc' = [mloc EXCEPT !.settle.result = "false"]
            /\ hist' = hist
            /\ pc' = "s_done"
    /\ UNCHANGED <<page, ret, loc>>

InitSettleCall ==
    /\ page = PageOf(NavNone, FALSE, << >>, 0, target_month_index, "full", FALSE, FALSE, FALSE)
    /\ pc = "s_poll"
    /\ ret = <<"top">>
    /\ loc = InitLoc
    /\ mloc = InitMloc
    /\ hist = InitHist

NextSettle == SettlePoll

SpecSettle == InitSettleCall /\ [][NextSettle]_vars

(***************************************************************************)
(* SpecMatch: matches_event_text (lines 890-919) on every tile text made   *)
(* of a seed and up to MaxAtoms atoms, under each of the Criteria.         *)
(***************************************************************************)
\* The tile text grows by one piece.
BuildText ==
    /\ pc = "m_text"
    /\ mloc.atoms < MaxAtoms
    /\ \E a \in Atoms : mloc' = [mloc EXCEPT !.txt = @ \o a, !.atoms = @ + 1]
    /\ UNCHANGED <<page, pc, ret, loc, hist>>

\* The call matches_event_text(title, code, sem, sec, sess) of the tile scan
\* (line 1022), sess being the argument main passes.
MatchText ==
    /\ pc = "m_text"
    /\ \E c \in Criteria :
          /\ mloc' = [mloc EXCEPT !.crit = c]
          /\ hist' = [hist EXCEPT !.match =
                IF matches_event_text(mloc.txt, c.code, c.sem, c.sec, main_sess(c.sec, c.sess))
                THEN "true" ELSE "false"]
    /\ pc' = "m_done"
    /\ UNCHANGED <<page, ret, loc>>

InitMatch ==
    /\ page = PageOf(NavNone, FALSE, << >>, 0, target_month_index, "full", FALSE, FALSE, FALSE)
    /\ pc = "m_text"
    /\ ret = <<"top">>
    /\ loc = InitLoc
    /\ \E t \in Seeds : mloc = [InitMloc EXCEPT !.txt = t]
    /\ hist = InitHist

NextMatch == BuildText \/ MatchText

SpecMatch == InitMatch /\ [][NextMatch]_vars

(***************************************************************************)
(* SpecAttend: the absentee loop of main (lines 1368-1482).  Time is       *)
(* counted in ticks of 0.2 s: a wait that finds its element and a script   *)
(* take no time, a wait that finds nothing takes its whole timeout, so a   *)
(* cell is found at once, by the script after the three waits, or not at   *)
(* all after them.  The                                                    *)
(* table has a row for each identifier of TableIds, with a checked or an   *)
(* unchecked checkbox or none; a row that exists may still not be found    *)
(* (not rendered, stale).                                                  *)
(***************************************************************************)
PER_STUDENT_MAX_SECONDS == 25

\* SHORT_FIND_TIMEOUT, the timeout of each XPath wait of
\* try_find_cell_for_id.
SHORT_FIND_TIMEOUT == 10

\* TABLE_SCROLL_TRIES pauses of TABLE_SCROLL_PAUSE.
ScrollTicks == 6

\* The wait of get_table_container for a container that is not there.
ContainerTicks == 20

TableIds == {"s1", "s2"}

Ids == TableIds \cup {"s9"}

\* try_find_cell_for_id (lines 1385-1416): what a call can give for the
\* identifier and the ticks it takes.  An exception other than a timeout
\* or a stale element leaves the function.
CellLookups(id) ==
    {[cell |-> FALSE, raises |-> FALSE, ticks |-> 3 * SHORT_FIND_TIMEOUT],
     [cell |-> FALSE, raises |-> TRUE, ticks |-> 0]}
    \cup (IF id \in TableIds
          THEN {[cell |-> TRUE, raises |-> FALSE, ticks |-> 0],
                [cell |-> TRUE, raises |-> FALSE, ticks |-> 3 * SHORT_FIND_TIMEOUT]}
          ELSE {})

\* scroll_table_small_steps (lines 1425-1437): the ticks it takes.
scroll_table_small_steps(pg) == IF pg.container THEN ScrollTicks ELSE ContainerTicks

\* A processor that clicks the checkbox whatever its state.
DecideAlwaysClick(selected) == "click"

\* lines 1453-1457: click a selected checkbox, leave the other.
Decide(selected) == IF selected THEN "click" ELSE "skip"

\* An exception that is neither a timeout nor a stale element ends the
\* batch.
OnExceptionAbort(kind) == IF kind = "other" THEN "a_raised" ELSE "a_try"

\* The except clauses of process_one_absentee (lines 1458-1461): continue.
OnException(kind) == "a_try"

\* An accounting that drops the identifiers that were not found.
AccountNoList(m, id) ==
    [m EXCEPT !.unticked_ids = IF m.result = "true" THEN Append(@, id) ELSE @]

\* The body of the loop over the absentees (lines 1465-1474).
Account(m, id) ==
    [m EXCEPT !.unticked_ids = IF m.result = "true" THEN Append(@, id) ELSE @,
              !.not_found = IF m.result = "none" THEN Append(@, id) ELSE @]

\* One body of the loop of process_one_absentee (lines 1441-1461) for the
\* identifier id: `lookups` is what try_find_cell_for_id can give, `boxes`
\* whether find_checkbox_from_cell can find the checkbox of a row that has
\* one, `exs` what the calls on the checkbox can raise, `scrolledPage` the
\* page after scroll_table_small_steps.
AbsenteeBody(id, lookups, boxes, exs, scrolledPage) ==
    \E look \in lookups, box \in boxes, ex \in exs, at \in {"view", "selected", "click"} :
        LET m == [mloc EXCEPT !.t = @ + look.ticks]
            scrolled == [m EXCEPT !.t = @ + scroll_table_small_steps(page)]
        IN IF look.raises
           THEN /\ mloc' = m /\ pc' = OnException("other") /\ UNCHANGED <<page, hist>>
           ELSE IF ~look.cell \/ ~box \/ page.rows[id] = "none"
           THEN /\ mloc' = scrolled /\ pc' = "a_try" /\ page' = scrolledPage /\ UNCHANGED hist
           ELSE IF ex # "none" /\ at \in {"view", "selected"}
           THEN /\ mloc' = m /\ pc' = OnException(ex) /\ UNCHANGED <<page, hist>>
           ELSE IF Decide(page.rows[id] = "checked") = "skip"
           THEN /\ mloc' = [m EXCEPT !.result = "false"]
                /\ pc' = "a_account"
                /\ UNCHANGED <<page, hist>>
           ELSE IF ex # "none"
           THEN /\ mloc' = m /\ pc' = OnException(ex) /\ UNCHANGED <<page, hist>>
           ELSE /\ page' = [page EXCEPT !.rows[id] =
                              IF @ = "checked" THEN "unchecked" ELSE "checked"]
                /\ hist' = [hist EXCEPT !.ticked = @ \/ page.rows[id] = "unchecked"]
                /\ mloc' = [m EXCEPT !.result = "true", !.clicks = @ + 1]
                /\ pc' = "a_account"

\* The body against a table of which nothing is known: a row that exists
\* may be found or not, and every call may raise.
AbsenteeTry ==
    /\ pc = "a_try"
    /\ mloc.t < PER_STUDENT_MAX_SECONDS
    /\ AbsenteeBody(mloc.absentees[mloc.i], CellLookups(mloc.absentees[mloc.i]), BOOLEAN,
                    {"none", "stale", "timeout", "other"}, page)
    /\ UNCHANGED <<ret, loc>>

\* The loop test fails (line 1441): return None (line 1462).
AbsenteeTimeout ==
    /\ pc = "a_try"
    /\ mloc.t >= PER_STUDENT_MAX_SECONDS
    /\ mloc' = [mloc EXCEPT !.result = "none"]
    /\ pc' = "a_account"
    /\ UNCHANGED <<page, ret, loc, hist>>

\* The result of one absentee is printed and kept (lines 1465-1474); the
\* loop goes on with the next identifier.
AbsenteeAccount ==
    /\ pc = "a_account"
    /\ LET id == mloc.absentees[mloc.i]
       IN /\ hist' = [hist EXCEPT !.outcomes =
                        Append(@, [id |-> id, result |-> mloc.result,
                                   clicks |-> mloc.clicks, ticks |-> mloc.t])]
          /\ mloc' = [Account(mloc, id) EXCEPT !.i = @ + 1, !.t = 0, !.clicks = 0,
                                               !.result = "none"]
    /\ pc' = IF mloc.i < Len(mloc.absentees) THEN "a_try" ELSE "a_summary"
    /\ UNCHANGED <<page, ret, loc>>

\* The attendance summary (lines 1476-1482).
AttendSummary ==
    /\ pc = "a_summary"
    /\ hist' = [hist EXCEPT !.summary =
                   <<[unticked |-> Len(mloc.unticked_ids), not_found |-> Len(mloc.not_found),
                      listed |-> mloc.not_found]>>]
    /\ pc' = "a_done"
    /\ UNCHANGED <<page, ret, loc, mloc>>

InitAttend ==
    /\ \E rows \in [TableIds -> {"checked", "unchecked", "none"}], container \in BOOLEAN :
          page = [PageOf(NavNone, FALSE, << >>, 0, target_month_index, "full", FALSE, FALSE, FALSE)
                    EXCEPT !.rows = rows, !.container = container]
    /\ \E ab \in SeqsUpTo(Ids, MaxAbsentees) :
          /\ mloc = [InitMloc EXCEPT !.absentees = ab]
          /\ pc = IF ab = << >> THEN "a_summary" ELSE "a_try"
    /\ ret = <<"top">>
    /\ loc = InitLoc
    /\ hist = InitHist

NextAttend == AbsenteeTry \/ AbsenteeTimeout \/ AbsenteeAccount \/ AttendSummary

SpecAttend == InitAttend /\ [][NextAttend]_vars

(***************************************************************************)
(* SpecTable: the absentee loop against a table that renders only the rows *)
(* in view.  Offsets are counted in scroll steps (0.35 of the visible      *)
(* height, line 1432): table.top is the scrollTop, table.max its highest   *)
(* value, table.at the offset of each row; the view holds ViewSteps steps. *)
(* No call raises and a row in view is found at once.                      *)
(***************************************************************************)
TABLE_SCROLL_TRIES == 6

ViewSteps == 3

\* The row of the identifier is in view.
Rendered(pg, id) ==
    /\ id \in DOMAIN pg.table.at
    /\ pg.table.at[id] >= pg.table.top
    /\ pg.table.at[id] < pg.table.top + ViewSteps

\* try_find_cell_for_id (lines 1385-1416) on the rendered rows: the cell at
\* once, or nothing after the three waits.
RenderedLookups(pg, id) ==
    IF Rendered(pg, id) THEN {[cell |-> TRUE, raises |-> FALSE, ticks |-> 0]}
    ELSE {[cell |-> FALSE, raises |-> FALSE, ticks |-> 3 * SHORT_FIND_TIMEOUT]}

\* The table after scroll_table_small_steps (lines 1429-1435):
\* TABLE_SCROLL_TRIES steps down, none back.
ScrolledTable(pg) ==
    IF pg.container
    THEN [pg EXCEPT !.table.top = IF @ + TABLE_SCROLL_TRIES > pg.table.max
                                  THEN pg.table.max ELSE @ + TABLE_SCROLL_TRIES]
    ELSE pg

TableTry ==
    /\ pc = "a_try"
    /\ mloc.t < PER_STUDENT_MAX_SECONDS
    /\ AbsenteeBody(mloc.absentees[mloc.i], RenderedLookups(page, mloc.absentees[mloc.i]),
                    {TRUE}, {"none"}, ScrolledTable(page))
    /\ UNCHANGED <<ret, loc>>

\* Absentee lists without repeats.
Distinct(S, n) == {ab \in SeqsUpTo(S, n) : \A i, j \in 1..Len(ab) : i # j => ab[i] # ab[j]}

InitTable ==
    /\ \E rows \in [TableIds -> {"checked", "unchecked"}],
          at \in [TableIds -> {0, MaxTop + ViewSteps - 1}], max \in {0, MaxTop} :
          /\ max = 0 => \A id \in TableIds : at[id] = 0
          /\ page = [PageOf(NavNone, FALSE, << >>, 0, target_month_index, "full",
                            FALSE, FALSE, FALSE)
                       EXCEPT !.rows = rows, !.container = TRUE,
                              !.table = [top |-> 0, max |-> max, at |-> at]]
    /\ \E ab \in Distinct(Ids, Cardinality(Ids)) :
          /\ mloc = [InitMloc EXCEPT !.absentees = ab]
          /\ pc = IF ab = << >> THEN "a_summary" ELSE "a_try"
    /\ ret = <<"top">>
    /\ loc = InitLoc
    /\ hist = InitHist

NextTable == TableTry \/ AbsenteeTimeout \/ AbsenteeAccount \/ AttendSummary

SpecTable == InitTable /\ [][NextTable]_vars

(***************************************************************************)
(* SpecLocate: one call of scroll_day_panel_gradual (lines 1005-1073).     *)
(* The list is virtualized: while the search scrolls or sleeps, tiles      *)
(* leave at the top and tiles of any day enter at the bottom.  The scroll  *)
(* steps that fit in max_seconds are at most MaxScrolls.                   *)
(***************************************************************************)
\* The lists the panel can show after the list `tiles`.
Rerendered(tiles) ==
    LET kept == {tiles} \cup (IF tiles = << >> THEN {} ELSE {Tail(tiles)})
    IN kept \cup {Append(k, a) : k \in {x \in kept : Len(x) < MaxTiles}, a \in Tiles}

\* The geometries of the list container: scrollTop, scrollHeight h and
\* clientHeight c, the latter 0 for a container that is not laid out.
Geometries ==
    {[top |-> 0, h |-> 120, c |-> 0], [top |-> 0, h |-> 120, c |-> 50],
     [top |-> 0, h |-> 150, c |-> 100]}

\* The scroll step of one loop body (lines 1041-1053) from the geometry g
\* it read: the position it asks for and whether that is the bottom.
ScrollStep(g) ==
    LET step == IF g.c # 0 THEN Max(40, (g.c * 6) \div 10) ELSE 250
        bottom == g.h # 0 /\ g.top + step >= g.h - g.c - 2
    IN [newTop |-> IF bottom THEN g.h ELSE g.top + step, seen_bottom |-> bottom]

\* A scan that returns the last tile it kept.
LocateReturnLast(m, ok, cand, next) ==
    IF ~ok THEN <<m, "l_raised">>
    ELSE IF cand # << >> THEN <<[m EXCEPT !.target = cand[Len(cand)]], "l_done">>
    ELSE <<m, next>>

\* A scan and what follows it: collect_candidates raises when neither read
\* of the links succeeds (ok is false; lines 1010-1017, the read of the
\* except clause is unguarded); return cand[0] when it kept a tile; else go
\* on at `next`.
LocateReturn(m, ok, cand, next) ==
    IF ~ok THEN <<m, "l_raised">>
    ELSE IF cand # << >> THEN <<[m EXCEPT !.target = cand[1]], "l_done">>
    ELSE <<m, next>>

\* The scan before the loop (lines 1031-1033).
LocateFirst ==
    /\ pc = "l_first"
    /\ \E ok \in BOOLEAN :
          LET cand == collect_tile_candidates(page.tiles, mloc.crit)
              r == LocateReturn(mloc, ok, cand, "l_loop")
          IN /\ mloc' = r[1]
             /\ pc' = r[2]
             /\ hist' = [hist EXCEPT !.firstScan = IF ~ok THEN "raised"
                                                   ELSE IF cand # << >> THEN "hit"
                                                   ELSE "miss"]
    /\ UNCHANGED <<page, ret, loc>>

\* One body of the loop (lines 1035-1064): the read of the geometry, (0, 0,
\* 0) when it fails; the scroll step, which the browser clamps to the
\* range of the list and which may fail; the pause; the scan.  At most one
\* of the three driver calls fails in one body.
LocateScroll ==
    /\ pc = "l_loop"
    /\ mloc.scrolls < MaxScrolls
    /\ \E tiles \in Rerendered(page.tiles), fail \in {"none", "read", "set", "links"} :
          LET g == IF fail # "read" THEN page.list ELSE [top |-> 0, h |-> 0, c |-> 0]
              st == ScrollStep(g)
              maxTop == Max(0, page.list.h - page.list.c)
              m == [mloc EXCEPT !.scrolls = @ + 1, !.seen_bottom = st.seen_bottom]
              r == LocateReturn(m, fail # "links", collect_tile_candidates(tiles, mloc.crit),
                                IF st.seen_bottom THEN "l_bottom" ELSE "l_loop")
          IN /\ page' = [page EXCEPT
                   !.tiles = tiles,
                   !.list.top = IF fail = "set" THEN @
                                ELSE IF st.newTop > maxTop THEN maxTop
                                ELSE st.newTop]
             /\ hist' = [hist EXCEPT !.requested = Append(@, <<st.newTop, g>>)]
             /\ mloc' = r[1]
             /\ pc' = r[2]
    /\ UNCHANGED <<ret, loc>>

\* At the bottom (lines 1066-1071): one more pause and scan, then the loop
\* ends.
LocateBottom ==
    /\ pc = "l_bottom"
    /\ \E tiles \in Rerendered(page.tiles), ok \in BOOLEAN :
          /\ page' = [page EXCEPT !.tiles = tiles]
          /\ LET r == LocateReturn(mloc, ok, collect_tile_candidates(tiles, mloc.crit),
                                   "l_done")
             IN mloc' = r[1] /\ pc' = r[2]
    /\ hist' = [hist EXCEPT !.grace = @ + 1]
    /\ UNCHANGED <<ret, loc>>

\* The loop test fails (line 1035): return None (line 1073).
LocateTimeout ==
    /\ pc = "l_loop"
    /\ mloc.scrolls >= MaxScrolls
    /\ pc' = "l_done"
    /\ UNCHANGED <<page, ret, loc, mloc, hist>>

InitLocate ==
    /\ \E tiles \in SeqsUpTo(Tiles, MaxTiles), g \in Geometries :
          page = [PageOf(NavNone, FALSE, << >>, 0, target_month_index, "full", FALSE, FALSE, FALSE)
                    EXCEPT !.tiles = tiles, !.list = g]
    /\ pc = "l_first"
    /\ ret = <<"top">>
    /\ loc = InitLoc
    /\ \E c \in {k \in Criteria : k.sec # << >> /\ (k.sess # << >> \/ k.code # << >>)} :
          mloc = [InitMloc EXCEPT !.crit = c]
    /\ hist = InitHist

NextLocate == LocateFirst \/ LocateScroll \/ LocateBottom \/ LocateTimeout

SpecLocate == InitLocate /\ [][NextLocate]_vars

(***************************************************************************)
(* SpecScenario: a run of main (lines 1184-1551) from a calendar that      *)
(* shows the target's month with the exact data-date cell in view, with    *)
(* the event search and the absentee loop in full.  The day panel shows a  *)
(* list of tiles with or without the event in its first view; the          *)
(* attendance table has a checked row for each identifier of TableIds, all *)
(* in the DOM (table.max = 0) or rendered in view only.  The search reads  *)
(* the day panel only and the absentee loop the event's page only, so each *)
(* stage starts on a page that holds what it reads.                        *)
(***************************************************************************)
ScenarioCriteria == CHOOSE c \in Criteria : c.code # << >>

ScenarioHit == CHOOSE a \in Tiles : TileTest[a, ScenarioCriteria]

ScenarioMiss == CHOOSE a \in Tiles : ~TileTest[a, ScenarioCriteria] /\ ~a.raises

ScenarioTiles == {<<ScenarioHit>>, <<ScenarioMiss>>, <<ScenarioMiss, ScenarioHit>>}

\* What of the history outlives the date selection: the state that
\* selected the date counts only when no fallback of main was needed.
ScenarioOutlives(h, stage) ==
    [InitHist EXCEPT !.via = IF stage = 0 THEN h.via ELSE 0,
                     !.steps = h.steps + h.navClicks,
                     !.firstScan = h.firstScan,
                     !.operator = h.operator,
                     !.search = TRUE]

BlankPage == PageOf(NavNone, FALSE, << >>, 0, target_month_index, "full", FALSE, FALSE, FALSE)

\* lines 1310-1316: the call of scroll_day_panel_gradual with the criteria
\* of the run.
ScenarioSearch ==
    /\ pc = "m_search"
    /\ pc' = "l_first"
    /\ \E tiles \in ScenarioTiles, g \in Geometries :
          page' = [BlankPage EXCEPT !.tiles = tiles, !.list = g, !.dayPanel = page.dayPanel]
    /\ mloc' = [InitMloc EXCEPT !.crit = ScenarioCriteria, !.panel = mloc.panel]
    /\ hist' = ScenarioOutlives(hist, mloc.stage)
    /\ UNCHANGED <<ret, loc>>

\* lines 1317-1326: no tile and a failed click on the tile are errors, as
\* is an exception of the search; the click opens the event's page.
ScenarioOpenTile ==
    /\ pc \in {"l_done", "l_raised"}
    /\ \E clicked \in BOOLEAN :
          LET error == IF pc = "l_raised" THEN "search"
                       ELSE IF mloc.target = NoTile THEN "no_tile"
                       ELSE IF ~clicked THEN "tile_click"
                       ELSE "none"
          IN /\ mloc' = [InitMloc EXCEPT !.error = error]
             /\ pc' = IF error = "none" THEN "s_tab" ELSE "m_teardown"
    /\ page' = BlankPage
    /\ hist' = ScenarioOutlives(hist, 0)
    /\ UNCHANGED <<ret, loc>>

\* lines 1328-1366: "More Details" when it is there, then the Attendance
\* tab; without the tab main asks the operator and reads a line.
ScenarioTab ==
    /\ pc = "s_tab"
    /\ \E tab \in BOOLEAN : pc' = IF tab THEN "s_attend" ELSE "s_input"
    /\ UNCHANGED <<page, ret, loc, mloc, hist>>

\* The operator presses Enter (line 1366).
ScenarioEnter ==
    /\ pc = "s_input"
    /\ pc' = "s_attend"
    /\ hist' = [hist EXCEPT !.operator = TRUE]
    /\ UNCHANGED <<page, ret, loc, mloc>>

\* lines 1368-1372, 1465: the loop over the absentees of the run starts on
\* the attendance table.
ScenarioAttendance ==
    /\ pc = "s_attend"
    /\ \E max \in {0, MaxTop} :
          page' = [BlankPage EXCEPT
                      !.rows = [id \in TableIds |-> "checked"], !.container = TRUE,
                      !.table = [top |-> 0, max |-> max, at |-> [id \in TableIds |-> 0]]]
    /\ \E ab \in Distinct(Ids, Cardinality(Ids)) :
          /\ mloc' = [mloc EXCEPT !.absentees = ab]
          /\ pc' = IF ab = << >> THEN "a_summary" ELSE "a_try"
    /\ UNCHANGED <<ret, loc, hist>>

\* line 1484: after the summary main goes on to the submission.
ScenarioSubmit ==
    /\ pc = "a_done"
    /\ pc' = "m_submit"
    /\ UNCHANGED <<page, ret, loc, mloc, hist>>

InitScenario ==
    /\ \E nav \in {NavNone, NavSlds}, sidebar \in SeqsUpTo(Cells, MaxCells),
          blockSpans \in BOOLEAN :
          /\ \E i \in 1..Len(sidebar) : sidebar[i] = CellExact
          /\ page = PageOf(nav, FALSE, sidebar, 0, target_month_index, "full",
                           FALSE, FALSE, blockSpans)
    /\ pc = "m_start"
    /\ ret = << >>
    /\ loc = InitLoc
    /\ mloc = InitMloc
    /\ hist = InitHist

ProgramScenario ==
    \/ MainStart \/ FastEntry \/ PrecheckExact \/ PrecheckGlobal \/ PrecheckUnambiguous
    \/ RobustEntry \/ RobustNav \/ RobustClick
    \/ FastNavBegin \/ FastNav \/ Render \/ FastCollect \/ FastTry \/ FastGrid
    \/ FastNudge \/ FastNudgeCollect \/ FastNudgeTry \/ FastReturn \/ FastRaise
    \/ MainWait \/ PageLoads \/ MainFallbackRobust \/ MainFallbackDataDate
    \/ MainFallbackSidebar \/ MainRaise \/ MainSettle
    \/ ScenarioSearch \/ LocateFirst \/ LocateScroll \/ LocateBottom \/ LocateTimeout
    \/ ScenarioOpenTile \/ ScenarioTab \/ ScenarioAttendance
    \/ TableTry \/ AbsenteeTimeout \/ AbsenteeAccount \/ AttendSummary
    \/ ScenarioSubmit \/ MainSubmit \/ MainTeardown

NextScenario == ProgramScenario \/ ScenarioEnter

SpecScenario == InitScenario /\ [][NextScenario]_vars /\ WF_vars(ProgramScenario)

(***************************************************************************)
(* The run as a whole: arguments, validation, browser session, the work    *)
(* in the try block, submission, teardown and the exit status.             *)
(***************************************************************************)
\* The pieces subject details are built of: a field character, a blank and
\* the separators "|", "^|" and "::".
Tokens == {<<"A">>, <<" ">>, <<"|">>, <<"^", "|">>, <<":", ":">>}

RECURSIVE Flatten(_)
Flatten(ts) == IF ts = << >> THEN << >> ELSE Head(ts) \o Flatten(Tail(ts))

\* str.replace(old, new), left to right.
RECURSIVE Replace(_, _, _)
Replace(s, old, new) ==
    IF Len(s) < Len(old) THEN s
    ELSE IF SubSeq(s, 1, Len(old)) = old
         THEN new \o Replace(SubSeq(s, Len(old) + 1, Len(s)), old, new)
         ELSE <<s[1]>> \o Replace(Tail(s), old, new)

\* str.split(sep): the pieces between the occurrences of sep, left to
\* right, `cur` being the piece in progress.
RECURSIVE SplitOn(_, _, _)
SplitOn(s, sep, cur) ==
    IF Len(s) >= Len(sep) /\ SubSeq(s, 1, Len(sep)) = sep
    THEN <<cur>> \o SplitOn(SubSeq(s, Len(sep) + 1, Len(s)), sep, << >>)
    ELSE IF s = << >> THEN <<cur>>
    ELSE SplitOn(Tail(s), sep, Append(cur, s[1]))

\* The five stripped fields of parse_subject_details (lines 168-176):
\* course name, course code, semester, class section, session number.
Fields(details) ==
    LET raw == strip(details)
        parts == IF \E i \in 1..Len(raw) - 1 : raw[i] = ":" /\ raw[i + 1] = ":"
                 THEN SplitOn(raw, <<":", ":">>, << >>)
                 ELSE SplitOn(Replace(raw, <<"^", "|">>, <<"|">>), <<"|">>, << >>)
    IN [k \in 1..5 |-> IF k <= Len(parts) THEN strip(parts[k]) ELSE << >>]

\* A parse that asks for the course code only.
parse_code_only(details) ==
    IF strip(details) = << >> \/ Fields(details)[2] = << >> THEN << >>
    ELSE Fields(details)

\* parse_subject_details: the five fields, or << >> for (None, error).
parse_subject_details(details) ==
    IF strip(details) = << >> THEN << >>
    ELSE IF \E k \in 2..4 : Fields(details)[k] = << >> THEN << >>
    ELSE Fields(details)

\* A teardown that leaves the session as it is.
TeardownNone(h) == h

\* finally: driver.quit(), its own failure swallowed (lines 1546-1548).
Teardown(h) == [h EXCEPT !.driver = "quit"]

\* The exit status: sys.exit(1) and an exception that leaves main give 1, a
\* main that returns gives 0.
Exit(h, status) == [h EXCEPT !.exit = status]

\* parse_arguments (lines 65-74): fewer than four arguments end the run.
RunArguments ==
    /\ pc = "r_args"
    /\ \E enough \in BOOLEAN :
          IF enough
          THEN pc' = "r_validate" /\ UNCHANGED <<mloc, hist>>
          ELSE /\ pc' = "r_exit"
               /\ mloc' = [mloc EXCEPT !.error = "usage"]
               /\ hist' = Exit(hist, 1)
    /\ UNCHANGED <<page, ret, loc>>

\* lines 1084-1096: the date and the subject details are validated.
RunValidate ==
    /\ pc = "r_validate"
    /\ \E dateOk \in BOOLEAN :
          LET parsed == parse_subject_details(mloc.raw)
          IN IF ~dateOk
             THEN /\ pc' = "r_exit"
                  /\ mloc' = [mloc EXCEPT !.error = "date"]
                  /\ hist' = Exit(hist, 1)
             ELSE IF parsed = << >>
             THEN /\ pc' = "r_exit"
                  /\ mloc' = [mloc EXCEPT !.error = "subject"]
                  /\ hist' = Exit(hist, 1)
             ELSE /\ pc' = "r_driver"
                  /\ mloc' = [mloc EXCEPT !.parsed = parsed]
                  /\ UNCHANGED hist
    /\ UNCHANGED <<page, ret, loc>>

\* start_driver_with_fallback (lines 1146-1159): a session, at once or with
\* the temporary profile, or an exception that leaves main.
RunStartDriver ==
    /\ pc = "r_driver"
    /\ \E started \in {"ok", "locked", "failed"} :
          IF started = "failed"
          THEN /\ pc' = "r_exit"
               /\ mloc' = [mloc EXCEPT !.error = "driver"]
               /\ hist' = Exit(hist, 1)
          ELSE /\ pc' = "r_body"
               /\ hist' = [hist EXCEPT !.driver = "open"]
               /\ UNCHANGED mloc
    /\ UNCHANGED <<page, ret, loc>>

\* The try block up to the summary (lines 1161-1482): it gets through, or
\* raises for the day panel (1301), the event tile (1317), anything else,
\* or is interrupted.
RunBody ==
    /\ pc = "r_body"
    /\ \E outcome \in {"none", "chain_exhausted", "no_tile", "other", "interrupt"} :
          /\ pc' = IF outcome = "none" THEN "r_submit"
                   ELSE IF outcome = "interrupt" THEN "r_finally" ELSE "r_except"
          /\ mloc' = [mloc EXCEPT !.error = outcome]
    /\ hist' = [hist EXCEPT !.dom = TRUE]
    /\ UNCHANGED <<page, ret, loc>>

\* lines 1484-1540: the submission; its failure is caught and printed as a
\* warning (1536-1537).
RunSubmit ==
    /\ pc = "r_submit"
    /\ \E ok \in BOOLEAN :
          mloc' = [mloc EXCEPT !.error = IF ok THEN "none" ELSE "submit"]
    /\ pc' = "r_finally"
    /\ UNCHANGED <<page, ret, loc, hist>>

\* except Exception: the error and the traceback are printed (1542-1544).
RunExcept ==
    /\ pc = "r_except"
    /\ pc' = "r_finally"
    /\ UNCHANGED <<page, ret, loc, mloc, hist>>

\* finally (lines 1546-1551); an interrupt goes on to leave main.
RunFinally ==
    /\ pc = "r_finally"
    /\ IF mloc.error = "interrupt"
       THEN pc' = "r_exit" /\ hist' = Exit(Teardown(hist), 1)
       ELSE pc' = "r_return" /\ hist' = Teardown(hist)
    /\ UNCHANGED <<page, ret, loc, mloc>>

\* lines 1553-1559: main returns and the interpreter exits.
RunReturn ==
    /\ pc = "r_return"
    /\ pc' = "r_exit"
    /\ hist' = Exit(hist, 0)
    /\ UNCHANGED <<page, ret, loc, mloc>>

InitRun ==
    /\ page = PageOf(NavNone, FALSE, << >>, 0, target_month_index, "full", FALSE, FALSE, FALSE)
    /\ pc = "r_args"
    /\ ret = << >>
    /\ loc = InitLoc
    /\ \E ts \in SeqsUpTo(Tokens, MaxTokens) : mloc = [InitMloc EXCEPT !.raw = Flatten(ts)]
    /\ hist = InitHist

NextRun ==
    \/ RunArguments \/ RunValidate \/ RunStartDriver \/ RunBody \/ RunSubmit
    \/ RunExcept \/ RunFinally \/ RunReturn

SpecRun == InitRun /\ [][NextRun]_vars

(***************************************************************************)
(* The waits of the try block of main, in order, each a poll loop of at    *)
(* most MaxWait polls, and the two calls of input().                       *)
(***************************************************************************)
\* One poll of a bounded wait at pcHere: the condition holds, or another
\* poll, or the timeout after MaxWait polls.
Wait(pcHere, pcFound, pcTimeout) ==
    /\ pc = pcHere
    /\ \E found \in BOOLEAN :
          IF found THEN pc' = pcFound /\ mloc' = [mloc EXCEPT !.polls = 0]
          ELSE IF mloc.polls + 1 < MaxWait
          THEN pc' = pcHere /\ mloc' = [mloc EXCEPT !.polls = @ + 1]
          ELSE pc' = pcTimeout /\ mloc' = [mloc EXCEPT !.polls = 0]
    /\ UNCHANGED <<page, ret, loc, hist>>

\* lines 1163-1172: hard_nav (four attempts at most), then the login check:
\* on a login page main calls input().
WaitsLogin ==
    /\ pc = "w_login"
    /\ \E sso \in BOOLEAN : pc' = IF sso THEN "w_input_login" ELSE "w_home"
    /\ hist' = [hist EXCEPT !.dom = TRUE]
    /\ UNCHANGED <<page, ret, loc, mloc>>

\* input() returns when the operator presses Enter (lines 1171, 1366).
OperatorEnter ==
    /\ pc \in {"w_input_login", "w_input_tab"}
    /\ pc' = IF pc = "w_input_login" THEN "w_home" ELSE "w_absentees"
    /\ UNCHANGED <<page, ret, loc, mloc, hist>>

\* line 1174
WaitsHome == Wait("w_home", "w_caltab", "w_except")

\* lines 1177-1181
WaitsCalTab == Wait("w_caltab", "w_sidebar", "w_except")

\* line 1185
WaitsSidebar == Wait("w_sidebar", "w_chain", "w_except")

\* lines 1195-1305: the date is clicked and the day panel awaited, each step
\* within its budget; the panel, or the diagnostic error.
WaitsChain == Wait("w_chain", "w_settle", "w_except")

\* lines 1307-1308: settling ends by quiet or by timeout.
WaitsSettle == Wait("w_settle", "w_search", "w_search")

\* lines 1310-1326
WaitsSearch == Wait("w_search", "w_details", "w_except")

\* lines 1328-1336: More Details, if present.
WaitsDetails == Wait("w_details", "w_tab", "w_tab")

\* lines 1338-1366: the Attendance tab; without it main calls input().
WaitsTab == Wait("w_tab", "w_absentees", "w_input_tab")

\* lines 1439-1474: one poll of process_one_absentee for the identifier at
\* hand; with its result or its budget spent, the next identifier.
WaitsAbsentee ==
    /\ pc = "w_absentees"
    /\ IF mloc.i > Len(mloc.absentees)
       THEN pc' = "w_submit" /\ mloc' = [mloc EXCEPT !.polls = 0]
       ELSE /\ pc' = "w_absentees"
            /\ \E found \in BOOLEAN :
                  mloc' = IF found \/ mloc.polls + 1 >= MaxWait
                          THEN [mloc EXCEPT !.i = @ + 1, !.polls = 0]
                          ELSE [mloc EXCEPT !.polls = @ + 1]
    /\ UNCHANGED <<page, ret, loc, hist>>

\* lines 1484-1540
WaitsSubmit == Wait("w_submit", "w_finally", "w_finally")

\* lines 1542-1544
WaitsExcept ==
    /\ pc = "w_except"
    /\ pc' = "w_finally"
    /\ mloc' = [mloc EXCEPT !.error = "other"]
    /\ UNCHANGED <<page, ret, loc, hist>>

\* lines 1546-1551
WaitsFinally ==
    /\ pc = "w_finally"
    /\ pc' = "w_done"
    /\ hist' = Teardown(hist)
    /\ UNCHANGED <<page, ret, loc, mloc>>

InitWaits ==
    /\ page = PageOf(NavNone, FALSE, << >>, 0, target_month_index, "full", FALSE, FALSE, FALSE)
    /\ pc = "w_login"
    /\ ret = << >>
    /\ loc = InitLoc
    /\ \E ab \in SeqsUpTo(Ids, MaxAbsentees) : mloc = [InitMloc EXCEPT !.absentees = ab]
    /\ hist = [InitHist EXCEPT !.driver = "open"]

\* The steps the program takes by itself.
ProgramWaits ==
    \/ WaitsLogin \/ WaitsHome \/ WaitsCalTab \/ WaitsSidebar \/ WaitsChain
    \/ WaitsSettle \/ WaitsSearch \/ WaitsDetails \/ WaitsTab \/ WaitsAbsentee
    \/ WaitsSubmit \/ WaitsExcept \/ WaitsFinally

NextWaits == ProgramWaits \/ OperatorEnter

\* The program takes its steps; nothing makes the operator press Enter.
SpecWaits == InitWaits /\ [][NextWaits]_vars /\ WF_vars(ProgramWaits)

(***************************************************************************)
(* The header strategies of panel_opened_ok (lines 580-613) over the       *)
(* heading elements of the page.  A heading is an h1, h2 or h3 element:    *)
(* its text, whether it is an h2.slds-assistive-text, whether a calendarDay *)
(* div follows it as a sibling, and the dates whose long form its text     *)
(* holds.                                                                  *)
(***************************************************************************)
WeekdayNames ==
    <<<<"M", "o", "n", "d", "a", "y">>,
      <<"T", "u", "e", "s", "d", "a", "y">>,
      <<"W", "e", "d", "n", "e", "s", "d", "a", "y">>,
      <<"T", "h", "u", "r", "s", "d", "a", "y">>,
      <<"F", "r", "i", "d", "a", "y">>,
      <<"S", "a", "t", "u", "r", "d", "a", "y">>,
      <<"S", "u", "n", "d", "a", "y">>>>

\* date.weekday(): 0 for Monday; the days since 1 January of year 1, a
\* Monday.
weekday(d) ==
    LET y == d.year - 1
        leap == d.year % 4 = 0 /\ (d.year % 100 # 0 \/ d.year % 400 = 0)
        before == <<0, 31, 59, 90, 120, 151, 181, 212, 243, 273, 304, 334>>[d.month]
                  + (IF leap /\ d.month > 2 THEN 1 ELSE 0)
    IN (y * 365 + y \div 4 - y \div 100 + y \div 400 + before + d.day - 1) % 7

\* "%d" with the pad, "%-d" without.
DayText(n, pad) ==
    LET digit(k) == <<"0", "1", "2", "3", "4", "5", "6", "7", "8", "9">>[k + 1]
    IN IF n >= 10 THEN <<digit(n \div 10), digit(n % 10)>>
       ELSE IF pad THEN <<"0", digit(n)>> ELSE <<digit(n)>>

\* d.strftime("%A, %B ") followed by the day.
LongForm(d, pad) ==
    WeekdayNames[weekday(d) + 1] \o <<",", " ">> \o MonthNames[d.month] \o <<" ">> \o DayText(d.day, pad)

\* str.lstrip("0")
RECURSIVE lstrip0(_)
lstrip0(s) == IF s # << >> /\ Head(s) = "0" THEN lstrip0(Tail(s)) ELSE s

\* str.lower()
lower(s) ==
    [i \in 1..Len(s) |->
        IF s[i] \in Range(UpperCase)
        THEN Lower[CHOOSE k \in 1..Len(Lower) : UpperCase[k] = s[i]]
        ELSE s[i]]

\* _norm (line 884)
_norm(s) == join(SplitFrom(s, 1, << >>))

\* The header strings with the unpadded day only.
day_header_strings_unpadded(d) == <<_norm(LongForm(d, FALSE))>>

\* day_header_strings (lines 921-935): "%A, %B %-d", then "%A, %B %d" with
\* lstrip("0") and replace(", 0", ", "), without duplicates.
day_header_strings(d) ==
    LET first == _norm(LongForm(d, FALSE))
        second == _norm(Replace(lstrip0(LongForm(d, TRUE)), <<",", " ", "0">>, <<",", " ">>))
    IN IF second = first THEN <<first>> ELSE <<first, second>>

\* find_day_panel_for_date (lines 937-948): the calendarDay sibling of the
\* first h2.slds-assistive-text whose text is one of the header strings.
find_day_panel_for_date(headings, d) ==
    \E i \in 1..Len(headings) :
        /\ headings[i].assistive
        /\ \E k \in 1..Len(day_header_strings(d)) :
              lower(_norm(headings[i].text)) = lower(day_header_strings(d)[k])
        /\ headings[i].sibling

\* lines 580-613 of panel_opened_ok: the panel of find_day_panel_for_date,
\* with or without an event list, or a heading whose text holds a header
\* string, with or without a container after it.
header_ok(headings, d) ==
    \/ find_day_panel_for_date(headings, d)
    \/ \E i \in 1..Len(headings), k \in 1..Len(day_header_strings(d)) :
          Contains(lower(_norm(headings[i].text)), lower(day_header_strings(d)[k]))

\* The texts of the headings, each with the dates whose long form it holds:
\* the long form of the target, the same with the padded day, in capitals
\* with a double blank, inside a longer text; another day; the day before
\* the month; no text; the long form of the other date.
HeadingTexts ==
    {[text |-> <<"T", "h", "u", "r", "s", "d", "a", "y", ",", " ", "J", "u", "n", "e", " ", "5">>, names |-> {TargetDate}],
     [text |-> <<"T", "h", "u", "r", "s", "d", "a", "y", ",", " ", "J", "u", "n", "e", " ", "0", "5">>, names |-> {TargetDate}],
     [text |-> <<"T", "H", "U", "R", "S", "D", "A", "Y", ",", " ", " ", "J", "U", "N", "E", " ", "5">>, names |-> {TargetDate}],
     [text |-> <<"O", "n", " ", "T", "h", "u", "r", "s", "d", "a", "y", ",", " ", "J", "u", "n", "e", " ", "5", ",", " ", "2", "0", "2", "5">>, names |-> {TargetDate}],
     [text |-> <<"F", "r", "i", "d", "a", "y", ",", " ", "J", "u", "n", "e", " ", "6">>, names |-> {}],
     [text |-> <<"T", "h", "u", "r", "s", "d", "a", "y", ",", " ", "5", " ", "J", "u", "n", "e">>, names |-> {}],
     [text |-> << >>, names |-> {}],
     [text |-> <<"S", "u", "n", "d", "a", "y", ",", " ", "J", "u", "n", "e", " ", "1", "5">>, names |-> {OtherDayDate}]}

Headings ==
    {[text |-> t.text, names |-> t.names, assistive |-> a, sibling |-> sib] :
        t \in HeadingTexts, a \in BOOLEAN, sib \in BOOLEAN}

\* panel_opened_ok on a page without a marker: lines 498-506 read nothing,
\* the marker strategies are skipped, the header strategies decide.
VerifyHeaders ==
    /\ pc = "h_call"
    /\ page.marker = NoDate
    /\ pc' = "h_done"
    /\ hist' = [hist EXCEPT !.verdict = IF header_ok(page.headings, loc.tgt) THEN "true" ELSE "false"]
    /\ UNCHANGED <<page, ret, loc, mloc>>

InitHeaders ==
    /\ \E hs \in SeqsUpTo(Headings, MaxHeadings) :
          page = [PageOf(NavNone, FALSE, << >>, 0, target_month_index, "full",
                         FALSE, FALSE, FALSE) EXCEPT !.headings = hs]
    /\ pc = "h_call"
    /\ ret = <<"top">>
    /\ \E d \in {TargetDate, OtherDayDate} : loc = [InitLoc EXCEPT !.tgt = d]
    /\ mloc = InitMloc
    /\ hist = InitHist

NextHeaders == VerifyHeaders

SpecHeaders == InitHeaders /\ [][NextHeaders]_vars

(***************************************************************************)
(* SpecGrid: click_main_grid (lines 441-474) on the text of the document:  *)
(* every document of up to MaxNodes nodes, each with its aria-label,       *)
(* title, data-date and text, its class, and the date it denotes.          *)
(***************************************************************************)
FirstOfMonth == [year |-> 2025, month |-> 6, day |-> 1]
TwelfthOfMonth == [year |-> 2025, month |-> 6, day |-> 12]

\* String(year)
YearText(y) == DayText(y \div 100, TRUE) \o DayText(y % 100, TRUE)

\* month + " " + day
MonthDay(d) == MonthNames[d.month] \o <<" ">> \o DayText(d.day, FALSE)

\* patt1 and patt2 (lines 444-445)
patt1(d) == MonthDay(d) \o <<",", " ">> \o YearText(d.year)
patt2(d) == MonthDay(d) \o <<" ">> \o YearText(d.year)

\* "YYYY-MM-DD"
IsoText(d) ==
    YearText(d.year) \o <<"-">> \o DayText(d.month, TRUE) \o <<"-">> \o DayText(d.day, TRUE)

\* A node of the document; denotes is the date the node stands for, NoDate
\* for a node that is no day cell.
GridNode(aria, title, dd, text, cls, denotes) ==
    [aria |-> aria, title |-> title, dd |-> dd, text |-> text, cls |-> cls,
     denotes |-> denotes]

\* A day cell labelled with its date, a day cell with its data-date and
\* text only, and a container whose text lists the dates of two days.
GridNodes ==
    {GridNode(patt1(d), << >>, << >>, DayText(d.day, FALSE), cls, d) :
        d \in {FirstOfMonth, TwelfthOfMonth, TargetDate}, cls \in {"", "disabled"}}
    \cup {GridNode(<< >>, << >>, IsoText(d), DayText(d.day, FALSE), cls, d) :
            d \in {FirstOfMonth, TargetDate}, cls \in {"", "disabled"}}
    \cup {GridNode(<< >>, << >>, << >>,
                   patt1(TwelfthOfMonth) \o <<" ">> \o patt1(d), "", NoDate) :
            d \in {FirstOfMonth, TargetDate}}

\* The string the first pass searches (line 449).
GridText(n) ==
    n.aria \o <<"|", "|">> \o n.title \o <<"|", "|">> \o n.dd \o <<"|", "|">> \o n.text

\* The first pass (lines 447-455): the first node whose string holds
\* patt1, patt2 or month + " " + day.
GridFirstPass(doc, d) ==
    FirstIndex({k \in DOMAIN doc :
                   \/ Contains(GridText(doc[k]), patt1(d))
                   \/ Contains(GridText(doc[k]), patt2(d))
                   \/ Contains(GridText(doc[k]), MonthDay(d))})

\* The second pass (lines 456-467): the first node whose text is the day
\* and whose class is not a disabled one.
GridSecondPass(doc, d) ==
    FirstIndex({k \in DOMAIN doc :
                   /\ strip(doc[k].text) = DayText(d.day, FALSE)
                   /\ doc[k].cls \notin DisabledGrid})

\* The position of the node click_main_grid clicks, 0 when it returns
\* false.
GridChoice(doc, d) ==
    IF GridFirstPass(doc, d) # 0 THEN GridFirstPass(doc, d) ELSE GridSecondPass(doc, d)

\* click_main_grid(target_date) (line 797): the click of the node chosen.
GridClick ==
    /\ pc = "g_call"
    /\ pc' = "g_done"
    /\ LET k == GridChoice(page.doc, loc.tgt)
       IN hist' = IF k = 0 THEN hist
                  ELSE RecordClick(hist, <<page.gen, k>>, "unverified", FALSE)
    /\ UNCHANGED <<page, ret, loc, mloc>>

InitGrid ==
    /\ \E doc \in SeqsUpTo(GridNodes, MaxNodes) :
          page = [PageOf(NavNone, FALSE, << >>, 0, target_month_index, "full",
                         FALSE, FALSE, FALSE) EXCEPT !.doc = doc]
    /\ pc = "g_call"
    /\ ret = <<"top">>
    /\ \E d \in {FirstOfMonth, TargetDate} : loc = [InitLoc EXCEPT !.tgt = d]
    /\ mloc = InitMloc
    /\ hist = InitHist

NextGrid == GridClick

SpecGrid == InitGrid /\ [][NextGrid]_vars

(***************************************************************************)
(* Properties.                                                             *)
(***************************************************************************)
Count(s, v) == Cardinality({i \in DOMAIN s : s[i] = v})

SameYearMonth(dd, tgt) == dd # NoDate /\ dd.year = tgt.year /\ dd.month = tgt.month

\* The nodes collect_candidates snapshots, in DOM order.
DayNodes == SelectSeq(page.sidebar, LAMBDA n : n.txt)

\* C1: click_calendar_date_fast returns normally only when its most recent
\* date click was followed by a panel_opened_ok call that returned true.
C1_ReturnsOnlyVerified ==
    pc = "f_return" => hist.last.ver = "ok"

\* C2: main reaches the settle wait, the event search and the attendance
\* updates only with the day panel of the target date found by
\* wait_for_day_panel_ready; when every fallback has failed it raises the
\* diagnostic error, and then no event is searched and no checkbox touched.
C2_PanelBeforeAttendance ==
    /\ pc = "m_settle" => DayPanelReady(page)
    /\ (pc \in {"m_settle", "m_search", "m_attendance", "m_submit"}
          \/ hist.search \/ hist.touched) => mloc.panel
    /\ pc = "m_raise" => ~mloc.panel /\ mloc.stage = 3
    /\ mloc.error = "no_panel" => ~mloc.panel /\ ~hist.search /\ ~hist.touched

\* A checkbox is touched in a run whose panel only a fallback produced.
C2_Witness ==
    hist.touched /\ mloc.panel /\ mloc.stage >= 2

\* A run ends with the diagnostic error after the last fallback.
C2_WitnessRaise ==
    mloc.error = "no_panel" /\ mloc.stage = 3 /\ pc = "done"

\* C3: the Failed error of click_calendar_date_fast is raised only after
\* the states 1 to 6 have all been entered, in that order.
C3_FailedAfterAllStates ==
    (pc = "f_raise" /\ loc.tgt # NoDate) => hist.trail = <<1, 2, 3, 4, 5, 6>>

\* C4: no element is clicked again while its previous click is unverified
\* or failed verification.
C4_NoRepeatedClick ==
    ~hist.reclick

\* C5: month navigation ends without raising: at most 24 step clicks, none
\* when the shown month index equals the target's, none after a step that
\* found no control, and whatever ended the loop the function goes on to
\* its candidate collection (the click in click_calendar_date_robust).
C5_NavigationBounded ==
    /\ hist.navClicks <= 24
    /\ loc.nav_count = hist.navClicks
    /\ pc \in {"f_nav", "f_navloop", "f_collect", "r_entry", "r_nav", "r_click"}
    /\ (pc \in {"f_navloop", "r_nav", "f_collect", "r_click"}
          /\ hist.navFrom = target_month_index) => hist.navClicks = 0
    /\ hist.navNoCtl => pc \in {"f_collect", "r_click"}
    /\ pc \in {"f_collect", "r_click"} =>
          \/ loc.shown_month_index = target_month_index
          \/ hist.navNoCtl
          \/ hist.navClicks = 24

\* The budget is spent and the chain is at its candidate collection.
C5_Witness ==
    pc = "f_collect" /\ hist.navClicks = 24 /\ ~hist.navNoCtl

\* C6: a successful step clicks the control of the requested direction and
\* brings the shown month one month closer to the target's.
C6_StepTowardTarget ==
    (hist.navClicks > 0 /\ page.label = "full") =>
        /\ hist.navLast[2] = hist.navLast[1]
        /\ hist.navLast[4] = hist.navLast[3] - 1

\* C7: in the sequence of candidates MonthNavAndClick tries, no candidate
\* of a priority below 100 comes before one of priority 100.
C7_ExactTriedFirst ==
    \A i, j \in DOMAIN hist.attempts :
        (i < j /\ hist.attempts[j].priority = 100) => hist.attempts[i].priority = 100

\* An exact candidate that is last in DOM order is tried before a lower one.
C7_Witness ==
    /\ Len(hist.attempts) >= 2
    /\ hist.attempts[1].priority = 100
    /\ hist.attempts[2].priority < 100
    /\ Len(loc.candidates) >= 2
    /\ loc.candidates[1].priority < 100
    /\ loc.candidates[Len(loc.candidates)].priority = 100

\* C8 as stated: the result of collect_candidates has its priority-100
\* candidates first and each group in ascending offset order.
C8_CollectOrdered ==
    pc # "f_collect" =>
        \A i, j \in DOMAIN loc.candidates :
            i < j => LET a == loc.candidates[i]
                         b == loc.candidates[j]
                     IN /\ b.priority = 100 => a.priority = 100
                        /\ (a.priority = 100) = (b.priority = 100) => a.top <= b.top

\* C8: the sequence the chain sorts from the result of collect_candidates
\* holds the same candidates by descending priority and, within a priority,
\* by ascending offset; one exact candidate among duplicates is its first.
C8_SortedOrdered ==
    pc # "f_collect" =>
        LET c == loc.candidates
            s == loc.candidates_sorted
        IN /\ Len(s) = Len(c)
           /\ \A v \in Range(c) \cup Range(s) : Count(s, v) = Count(c, v)
           /\ \A i, j \in DOMAIN s :
                 i < j => \/ s[i].priority > s[j].priority
                          \/ s[i].priority = s[j].priority /\ s[i].top <= s[j].top
           /\ Cardinality({i \in DOMAIN c : c[i].dataDate = TargetDate}) = 1
                 => s[1].dataDate = TargetDate

\* One exact candidate, last in DOM order and lowest on the page, among
\* plain duplicates.
C8_Witness ==
    /\ pc # "f_collect"
    /\ Len(loc.candidates) = MaxNodes
    /\ \A i \in 1..(MaxNodes - 1) : loc.candidates[i].dataDate = NoDate
    /\ loc.candidates[MaxNodes].dataDate = TargetDate
    /\ loc.candidates[MaxNodes].top > loc.candidates[1].top
    /\ loc.candidates_sorted[1].dataDate = TargetDate

\* C9: each node with the day's text gets one priority: 100 iff its
\* data-date is the target date, 90 iff it is another date of the target's
\* year and month, else 50 when it is enabled and 10 when it is disabled.
C9_PriorityRule ==
    (pc # "f_collect" /\ Present(page)) =>
        /\ Len(loc.candidates) = Len(DayNodes)
        /\ \A i \in DOMAIN loc.candidates :
              LET n == DayNodes[i]
                  p == loc.candidates[i].priority
                  exact == n.dd = TargetDate
                  partial == ~exact /\ SameYearMonth(n.dd, TargetDate)
              IN /\ p \in {100, 90, 50, 10}
                 /\ (p = 100) = exact
                 /\ (p = 90) = partial
                 /\ (p = 50) = (~exact /\ ~partial /\ n.cls = "")
                 /\ (p = 10) = (~exact /\ ~partial /\ n.cls # "")
                 /\ loc.candidates[i].dataDate = n.dd
                 /\ loc.candidates[i].isDisabled = (n.cls # "")

\* One collection holds an exact, a year-month and a disabled candidate.
C9_Witness ==
    /\ pc # "f_collect"
    /\ \E i, j, k \in DOMAIN loc.candidates :
          /\ loc.candidates[i].priority = 100
          /\ loc.candidates[j].priority = 90 /\ loc.candidates[j].isDisabled
          /\ loc.candidates[k].priority = 10

\* The three groups of click_order: the candidates of priority >= 90, the
\* other non-disabled ones, the rest.
OrderGroup(c) == IF c.priority >= 90 THEN 1 ELSE IF ~c.isDisabled THEN 2 ELSE 3

\* The groups when only priority 100 counts as an exact match.
ExactOnlyGroup(c) == IF c.priority = 100 THEN 1 ELSE IF ~c.isDisabled THEN 2 ELSE 3

\* C10 as stated, the exact-match group being the priority-100 candidates:
\* they are tried first, then the other non-disabled candidates, then the
\* rest.
C10_ExactThenEnabled ==
    \A i, j \in DOMAIN hist.attempts :
        i < j => ExactOnlyGroup(hist.attempts[i]) <= ExactOnlyGroup(hist.attempts[j])

\* C10: click_order holds every candidate exactly once, the candidates of
\* priority >= 90 first, then the other non-disabled ones, then the rest;
\* the candidates tried are a prefix of it, and the attempts number at most
\* max(6, 2 x candidate count).
C10_TryOrderAndBudget ==
    pc # "f_collect" =>
        LET o == loc.click_order
            a == hist.attempts
        IN /\ Len(o) = Len(loc.candidates)
           /\ \A v \in Range(o) \cup Range(loc.candidates) : Count(o, v) = Count(loc.candidates, v)
           /\ \A i, j \in DOMAIN o : i < j => OrderGroup(o[i]) <= OrderGroup(o[j])
           /\ Len(a) <= Len(o)
           /\ a = SubSeq(o, 1, Len(a))
           /\ Len(a) = loc.tried
           /\ loc.tried <= Max(6, 2 * Len(loc.candidates))

\* Three attempts, one from each group, against a DOM order that has the
\* groups reversed.
C10_Witness ==
    /\ Len(hist.attempts) = 3
    /\ OrderGroup(hist.attempts[1]) = 1
    /\ OrderGroup(hist.attempts[2]) = 2
    /\ OrderGroup(hist.attempts[3]) = 3
    /\ OrderGroup(loc.candidates[1]) = 3
    /\ OrderGroup(loc.candidates[3]) = 1

\* C11: PrecheckUnambiguous picks only a non-disabled candidate that has
\* the target's data-date or a label with both the target's month name and
\* its year.
C11_PicksExactOrMonthAndYear ==
    \A i \in DOMAIN hist.picked :
        /\ ~hist.picked[i].isDisabled
        /\ hist.picked[i].dataDate = TargetDate \/ hist.picked[i].aria = "full"

\* C12 as stated: no navigation click before the three prechecks have been
\* entered, and none in a run that returns from one of them.
C12_PrechecksNeverNavigate ==
    (hist.fast = "running" /\ loc.tgt # NoDate) =>
        /\ hist.navClicks > 0 => Len(hist.trail) >= 3
        /\ (pc = "f_return" /\ Len(hist.trail) <= 3) => hist.navClicks = 0

\* C12: no navigation click happens before the three prechecks have been
\* entered in their order, and a run that returns on the verified click of
\* a precheck has issued none; the navigation clicks of a run that returns
\* from state 3 are those of click_calendar_date_robust, to which
\* PrecheckUnambiguous hands off.
C12_PrecheckClicksNoNavigation ==
    (hist.fast = "running" /\ loc.tgt # NoDate) =>
        /\ hist.navClicks > 0 =>
              Len(hist.trail) >= 3 /\ SubSeq(hist.trail, 1, 3) = <<1, 2, 3>>
        /\ (pc = "f_return" /\ Len(hist.trail) <= 3 /\ hist.last.ver = "ok") =>
              hist.navClicks = 0 /\ ~page.stale
        /\ (pc = "f_return" /\ Len(hist.trail) <= 3 /\ hist.navClicks > 0) =>
              hist.trail = <<1, 2, 3>> /\ hist.last.ver = "unverified"

\* PrecheckUnambiguous succeeds while the sidebar shows another month than
\* the target's and has its navigation controls.
C12_Witness ==
    /\ pc = "f_return"
    /\ hist.trail = <<1, 2, 3>>
    /\ hist.last.ver = "ok"
    /\ hist.navClicks = 0
    /\ page.shown # target_month_index
    /\ page.nav = NavSlds

\* C13 as stated: the error click_calendar_date_fast raises when its states
\* are exhausted carries the data-dates seen, the last click marker and the
\* month label.
C13_FailedCarriesAll ==
    (pc = "f_raise" /\ hist.trail = <<1, 2, 3, 4, 5, 6>>) =>
        hist.err.carries = {"label", "data_dates", "last_clicked"}

\* C13: the Failed error of click_calendar_date_fast carries the month
\* label only; the one error that carries the data-dates of the sidebar,
\* the last click marker and the month label is the diagnostic error main
\* raises when no day panel was found after its fallbacks.
C13_DiagnosticsInMainError ==
    /\ (pc = "f_raise" /\ hist.trail = <<1, 2, 3, 4, 5, 6>>) =>
          /\ hist.err.carries = {"label"}
          /\ hist.err.label = sidebar_month_label(page)
    /\ pc = "f_raise" => hist.err # NoError
    /\ (mloc.error = "no_panel") = (mloc.diag # NoError)
    /\ mloc.error = "no_panel" =>
          /\ mloc.diag.carries = {"label", "data_dates", "last_clicked"}
          /\ mloc.diag.label = sidebar_month_label(page)
          /\ mloc.diag.data_dates = SidebarDataDates(page)
          /\ mloc.diag.last_clicked = page.marker

\* The chain raised its Failed error, the fallbacks of main failed too, and
\* the diagnostic error holds a data-date and a marker.
C13_Witness ==
    /\ mloc.error = "no_panel"
    /\ hist.fast = "raised"
    /\ mloc.diag.data_dates # << >>
    /\ mloc.diag.last_clicked # NoDate
    /\ mloc.diag.label # <<0, 0>>

\* C14: whatever calls into the driver fail, panel_opened_ok returns True or
\* False and never raises; it returns True only where it does with a driver
\* that never fails, and with such a driver it is the verifier of the chain.
C14_VerifierNeverRaises ==
    pc = "v_done" =>
        /\ hist.verdict \in {"true", "false"}
        /\ hist.verdict = "true" => panel_opened_ok(page)
        /\ page.fails = {} => (hist.verdict = "true") = panel_opened_ok(page)

\* Every call into the driver fails and the verifier returns False.
C14_Witness ==
    pc = "v_done" /\ page.fails = PortCalls /\ hist.verdict = "false"
       /\ page.dayPanel = "target"

\* C15: when the verifier has accepted a click whose marker names another
\* date than the target, the day panel on screen is the target's.
C15_MarkerNotSoleProof ==
    (hist.last.ver = "ok" /\ page.marker \notin {NoDate, TargetDate}) =>
        page.dayPanel \in {"target", "nolist", "heading"}

\* C16: the marker panel_opened_ok reads was written by the click it
\* verifies.
C16_MarkerOfVerifiedClick ==
    hist.last.ver \in {"ok", "fail"} => hist.last.marked

\* The readings i..k are one signature.
Unchanged(i, k) == \A n \in i..k : hist.reads[n] = hist.reads[i]

\* The polls it takes, after the poll that sets stable_since, to be
\* QuietTicks later.
QuietPolls == (QuietTicks + TicksPerPoll - 1) \div TicksPerPoll

Occ(T, tok) == {i \in 1..Len(T) : At(T, i, tok)}

\* The token at position i has no letter or digit next to it.
Standalone(T, i, tok) ==
    CharAt(T, i - 1) \notin AZ09 /\ CharAt(T, i + Len(tok)) \notin AZ09

\* -<digit> stands at position j.
DashDigitNext(T, j) == CharAt(T, j) = "-" /\ CharAt(T, j + 1) \in Digits

\* SEC or SECTION stands before position i, with nothing but blanks and
\* one ":" or "-" in between.
SecPrefixed(T, i) ==
    \E k \in 1..(i - 1) : \E word \in {<<"S", "E", "C">>, <<"S", "E", "C", "T", "I", "O", "N">>} :
        /\ At(T, k, word)
        /\ k + Len(word) <= i
        /\ \A j \in (k + Len(word))..(i - 1) : T[j] \in Whitespace \cup {":", "-"}

\* The token at position i stands between "(" and ")", blanks aside.
Parenthesized(T, i, tok) ==
    /\ \E l \in 1..(i - 1) : T[l] = "(" /\ Spaces(T, l + 1, i)
    /\ \E r \in (i + Len(tok))..Len(T) : T[r] = ")" /\ Spaces(T, i + Len(tok), r)

\* C18: with a section token without separator, a tile matches only when
\* its normalized text holds the token standing alone and not followed by
\* -<digit>, or SEC/SECTION-prefixed, or parenthesized; a tile where every
\* B is followed by -<digit> does not match section B; the tile
\* "OS - CSE 3123 Semester V (B)" matches code CSE 3123, semester V,
\* section B.
C18_BareSectionToken ==
    LET T == norm(mloc.txt)
        tok == Upper(strip(mloc.crit.sec))
    IN pc = "m_done" /\ mloc.crit.sec # << >> /\ "-" \notin Range(mloc.crit.sec) =>
        /\ hist.match = "true" =>
              \E i \in Occ(T, tok) :
                 \/ Standalone(T, i, tok) /\ ~DashDigitNext(T, i + Len(tok))
                 \/ SecPrefixed(T, i)
                 \/ Parenthesized(T, i, tok)
        /\ (\A i \in Occ(T, tok) : DashDigitNext(T, i + Len(tok))) => hist.match = "false"
        /\ mloc.txt = ExampleTile /\ mloc.crit.code # << >> => hist.match = "true"

\* The example tile matched code CSE 3123, semester V, section B.
C18_Witness ==
    /\ pc = "m_done"
    /\ mloc.txt = ExampleTile
    /\ mloc.crit = [code |-> <<"C", "S", "E", " ", "3", "1", "2", "3">>, sem |-> <<"V">>, sec |-> <<"B">>, sess |-> << >>]
    /\ hist.match = "true"

\* C19: with a section token that holds a separator, a tile matches only
\* when the token stands in its normalized text with no letter or digit
\* next to it, and the session is not consulted, by the matcher or by the
\* argument main passes; with a section without separator the session is
\* required as the substring "SESSION n".
C19_SeparatedSectionToken ==
    LET T == norm(mloc.txt)
        c == mloc.crit
        tok == Upper(strip(c.sec))
        m(sess) == matches_event_text(mloc.txt, c.code, c.sem, c.sec, sess)
    IN pc = "m_done" =>
        IF "-" \in Range(c.sec)
        THEN /\ (hist.match = "true") = (\E i \in Occ(T, tok) : Standalone(T, i, tok))
             /\ main_sess(c.sec, c.sess) = << >>
             /\ m(c.sess) = m(<< >>)
        ELSE /\ main_sess(c.sec, c.sess) = c.sess
             /\ (hist.match = "true") =
                   (m(<< >>) /\ (c.sess # << >> => Contains(T, <<"S", "E", "S", "S", "I", "O", "N", " ">> \o c.sess)))

\* Section B-1 with a session number matched a tile that names B-1 and no
\* session.
C19_Witness ==
    /\ pc = "m_done"
    /\ mloc.crit.sec = <<"B", "-", "1">>
    /\ mloc.crit.sess # << >>
    /\ hist.match = "true"
    /\ ~Contains(norm(mloc.txt), <<"S", "E", "S", "S", "I", "O", "N">>)

\* C20: the tile scroll_day_panel_gradual returns, from the scan before
\* the loop or from any later one, has a text that matches the criteria
\* and a description that names the target date; a tile of another day is
\* not returned.
C20_ReturnedTileMatches ==
    LET a == mloc.target
        c == mloc.crit
        T == norm(a.text)
    IN a # NoTile =>
        /\ pc = "l_done"
        /\ a.day = TargetDate
        /\ c.code # << >> => Contains(T, Upper(c.code))
        /\ c.sem # << >> => Contains(T, <<"S", "E", "M", "E", "S", "T", "E", "R", " ">> \o Upper(c.sem))
        /\ c.sec # << >> => \E i \in Occ(T, Upper(c.sec)) : Standalone(T, i, Upper(c.sec))
        /\ c.sess # << >> /\ "-" \notin Range(c.sec) => Contains(T, <<"S", "E", "S", "S", "I", "O", "N", " ">> \o Upper(c.sess))
        /\ \E i \in 1..Len(page.tiles) : page.tiles[i] = a

\* After a scroll the list showed a tile of another day with a matching
\* text ahead of the tile of the target day, and the search returned the
\* latter.
C20_Witness ==
    /\ pc = "l_done"
    /\ mloc.scrolls > 0
    /\ mloc.target # NoTile
    /\ Len(page.tiles) = 2
    /\ page.tiles[1].text = mloc.target.text
    /\ page.tiles[1].day # TargetDate
    /\ ~page.tiles[1].raises
    /\ page.tiles[2] = mloc.target

\* The positions of the rendered list whose tile passes the test of the
\* scan.
Passing == {i \in 1..Len(page.tiles) : TileTest[page.tiles[i], mloc.crit]}

\* C21: every scan of scroll_day_panel_gradual that completes tests all
\* rendered tiles and, when one passes, the function returns at once the
\* first of them in reading order; it goes on scrolling, or returns None,
\* only after a scan in which no tile passed; a tile that passes in the
\* scan before the loop is returned before any scroll is asked for.
C21_FirstMatchAtOnce ==
    /\ [](/\ mloc.target # NoTile =>
               /\ Passing # {}
               /\ \A i \in Passing : mloc.target = page.tiles[i] \/ \E j \in Passing : j < i
               /\ pc = "l_done"
          /\ pc \in {"l_loop", "l_bottom"} \/ (pc = "l_done" /\ mloc.target = NoTile)
               => Passing = {})
    /\ [][pc = "l_first" /\ Passing # {} /\ pc' # "l_raised" =>
            /\ pc' = "l_done"
            /\ mloc'.target # NoTile
            /\ hist'.requested = << >>
            /\ page' = page]_vars

\* Two rendered tiles passed the test of the scan before the loop and the
\* search returned the first without a scroll.
C21_Witness ==
    /\ pc = "l_done"
    /\ hist.requested = << >>
    /\ Passing = {1, 2}
    /\ page.tiles[1] # page.tiles[2]
    /\ mloc.target = page.tiles[1]

\* C22: the scroll search never raises; each position it asks for is the
\* position read plus max(40, 60% of the visible height), or the bottom
\* when that reaches it, and none is behind the one asked before; after the
\* bottom it scans once more, and only then; without a passing tile it
\* returns None.
C22_ForwardScrollNoRaise ==
    /\ pc # "l_raised"
    /\ \A k \in 1..Len(hist.requested) :
          LET newTop == hist.requested[k][1]
              g == hist.requested[k][2]
              ahead == g.top + Max(40, (g.c * 6) \div 10)
          IN /\ newTop = (IF g.h # 0 /\ ahead >= g.h - g.c - 2 THEN g.h ELSE ahead)
             /\ k > 1 => newTop >= hist.requested[k - 1][1]
    /\ Len(hist.requested) <= MaxScrolls
    /\ pc = "l_done" /\ mloc.target = NoTile =>
          hist.grace = (IF mloc.seen_bottom THEN 1 ELSE 0)

\* C23: a call of process_one_absentee that returns True clicked the
\* checkbox of the identifier once, found it checked and left it
\* unchecked; one that returns False did not click and found it unchecked;
\* no click falls on an unchecked checkbox.
C23_UntickOnly ==
    /\ ~hist.ticked
    /\ \A k \in 1..Len(hist.outcomes) :
          hist.outcomes[k].clicks = (IF hist.outcomes[k].result = "true" THEN 1 ELSE 0)
    /\ pc = "a_account" /\ mloc.result \in {"true", "false"} =>
          /\ page.rows[mloc.absentees[mloc.i]] = "unchecked"
          /\ mloc.clicks = (IF mloc.result = "true" THEN 1 ELSE 0)

\* An identifier listed twice was unticked the first time and found
\* unticked the second.
C23_Witness ==
    /\ pc = "a_done"
    /\ Len(hist.outcomes) = 2
    /\ hist.outcomes[1].id = hist.outcomes[2].id
    /\ hist.outcomes[1].result = "true"
    /\ hist.outcomes[2].result = "false"

\* C24: whatever the lookups give or raise, the batch is not aborted: the
\* identifiers are processed once each in the order of the list, each
\* gets one of the three results, and the loop reaches the summary with
\* all of them.
C24_BatchNeverAborted ==
    /\ pc # "a_raised"
    /\ Len(hist.outcomes) <= Len(mloc.absentees)
    /\ \A k \in 1..Len(hist.outcomes) :
          /\ hist.outcomes[k].id = mloc.absentees[k]
          /\ hist.outcomes[k].result \in {"true", "false", "none"}
    /\ pc \in {"a_try", "a_account"} => mloc.i = Len(hist.outcomes) + 1
    /\ pc \in {"a_summary", "a_done"} => Len(hist.outcomes) = Len(mloc.absentees)

\* The first identifier, a row of the table, was not found within its
\* budget and the second was unticked all the same.
C24_Witness ==
    /\ pc = "a_done"
    /\ Len(hist.outcomes) = 2
    /\ hist.outcomes[1].id \in TableIds
    /\ hist.outcomes[1].result = "none"
    /\ hist.outcomes[2].result = "true"

\* C25: an identifier that is not in the table, or whose row has no
\* checkbox, gets None; no checkbox is clicked for an identifier that gets
\* None; the identifiers that got None are the not_found list, which the
\* summary lists.
C25_NotFoundListed ==
    LET none == SelectSeq(hist.outcomes, LAMBDA o : o.result = "none")
    IN /\ \A k \in 1..Len(hist.outcomes) :
             LET o == hist.outcomes[k]
             IN /\ (o.id \notin TableIds \/ page.rows[o.id] = "none") => o.result = "none"
                /\ o.result = "none" => o.clicks = 0
       /\ pc \in {"a_try", "a_account"} => mloc.not_found = [k \in 1..Len(none) |-> none[k].id]
       /\ pc = "a_done" => hist.summary[1].listed = [k \in 1..Len(none) |-> none[k].id]

\* An identifier without a row and one whose row has no checkbox are both
\* in the list of the summary.
C25_Witness ==
    /\ pc = "a_done"
    /\ Len(hist.summary[1].listed) = 2
    /\ hist.summary[1].listed[1] \notin TableIds
    /\ hist.summary[1].listed[2] \in TableIds
    /\ page.rows[hist.summary[1].listed[2]] = "none"

\* C26: process_one_absentee returns None for an identifier that is not in
\* the table within PER_STUDENT_MAX_SECONDS of its start.
C26_NotFoundWithinBudget ==
    \A k \in 1..Len(hist.outcomes) :
        hist.outcomes[k].id \notin TableIds => hist.outcomes[k].ticks <= PER_STUDENT_MAX_SECONDS

\* C27: the counts of the summary add up to the number of identifiers
\* requested, and the summary lists the identifiers that were not found.
C27_CountsAddUp ==
    pc = "a_done" =>
        /\ hist.summary[1].unticked + hist.summary[1].not_found = Len(mloc.absentees)
        /\ hist.summary[1].listed = mloc.not_found

\* C28: the exit status is 0 exactly when nothing failed: an argument or
\* validation error, the day panel not found after the fallbacks, the
\* event tile not found and a failed submission all give a status other
\* than 0.
C28_ExitStatus ==
    pc = "r_exit" => (hist.exit = 0 <=> mloc.error = "none")

\* C29: once the browser session has been created, the process does not
\* end (main does not even return) before driver.quit() has been called.
C29_SessionClosed ==
    /\ pc \in {"r_return", "r_exit"} => hist.driver # "open"
    /\ hist.exit # -1 /\ hist.dom => hist.driver = "quit"
    /\ pc \in {"r_body", "r_submit", "r_except", "r_finally"} => hist.driver = "open"

\* The event tile was not found and the session was closed before the end.
C29_Witness ==
    /\ pc = "r_exit"
    /\ mloc.error = "no_tile"
    /\ hist.driver = "quit"

\* C30: subject details whose course code, semester or section is empty
\* end the run with status 1 with no browser session and no DOM operation;
\* with a session or a DOM operation, the three fields main holds are not
\* empty.
C30_ValidatedBeforeBrowser ==
    /\ (\E k \in 2..4 : Fields(mloc.raw)[k] = << >>) =>
          /\ hist.driver = "none" /\ ~hist.dom
          /\ pc = "r_exit" => hist.exit = 1
    /\ hist.driver # "none" \/ hist.dom =>
          /\ Len(mloc.parsed) = 5
          /\ \A k \in 2..4 : mloc.parsed[k] # << >>

\* Details with a course code and a section and a blank semester ended the
\* run before the session was created.
C30_Witness ==
    /\ pc = "r_exit"
    /\ mloc.error = "subject"
    /\ hist.driver = "none"
    /\ Fields(mloc.raw)[2] # << >>
    /\ Fields(mloc.raw)[3] = << >>
    /\ Fields(mloc.raw)[4] # << >>

\* C31: every run reaches the end of the teardown without any input from
\* outside.
C31_RunTerminates == <>(pc = "w_done")

\* C32: no candidate is chosen for a click from a list that
\* collect_candidates returned before a click or a navigation step changed
\* the page.
C32_NoStaleCandidates == ~hist.staleUse

\* C33: NudgeRetry clicks the next control once and then the prev control
\* once, collects the candidates, and clicks at most one candidate after
\* that.
C33_NudgeOneAttempt ==
    hist.nudge.done =>
        /\ hist.nudge.first = "next"
        /\ hist.nudge.second = "prev"
        /\ hist.nudge.clicks <= 1
        /\ hist.nudge.clicks > 0 \/ pc \in {"f_nudge_try", "f_return", "f_raise"} =>
              hist.nudge.collected

\* C37: the month the calendar shows after the two steps of NudgeRetry is
\* the month it showed before them.
C37_NudgeKeepsMonth == hist.nudge.done => page.shown = hist.nudge.from

\* C34: without a marker, panel_opened_ok returns True exactly when some
\* heading holds the long form of the target date, with the padded or the
\* unpadded day, whether or not a container follows the heading.
C34_HeaderWithoutMarker ==
    pc = "h_done" =>
        (hist.verdict = "true" <=>
            \E i \in 1..Len(page.headings) : loc.tgt \in page.headings[i].names)

\* True for a heading with the padded day and no container after it.
C34_Witness ==
    /\ pc = "h_done"
    /\ hist.verdict = "true"
    /\ Len(page.headings) = 1
    /\ ~page.headings[1].sibling
    /\ Contains(page.headings[1].text, <<"0", "5">>)

\* A row with a checkbox that is in view when the table is at its top.
FoundWhenFirst(id) ==
    /\ id \in TableIds
    /\ page.rows[id] # "none"
    /\ page.table.at[id] < ViewSteps

\* C39: in a list without repeats an identifier gets the outcome it gets
\* at the head of the list, wherever it stands: one that is found at the
\* head of the list is not reported as not found.
C39_OrderIndependent ==
    \A k \in 1..Len(hist.outcomes) :
        FoundWhenFirst(hist.outcomes[k].id) => hist.outcomes[k].result # "none"

\* C36: click_fragment clicks the very node a candidate was collected from:
\* after a click of the loop over click_order, the node clicked is one
\* whose snapshot is the candidate the loop had chosen, even when other
\* nodes of the sidebar carry the same markup.
C36_ClicksCandidateNode ==
    (hist.attempts # << >> /\ hist.last.elem # NoElem /\ hist.last.elem[2] >= 1) =>
        Candidate(page.sidebar[hist.last.elem[2]], page.wtop, loc.tgt)
            = hist.attempts[Len(hist.attempts)]

\* C38: MainGridFallback clicks only a node that denotes the target day:
\* the node click_main_grid clicks is a day cell of the target date, not
\* the cell of another day, not a container, and not disabled.
C38_GridClicksTargetDay ==
    (pc = "g_done" /\ hist.last.elem # NoElem) =>
        LET n == page.doc[hist.last.elem[2]]
        IN n.denotes = loc.tgt /\ n.cls \notin DisabledGrid

\* C35: the end-to-end scenario.  A date selected by PrecheckExact alone
\* took no navigation click and its click was verified with the marker; a
\* tile kept by the scan before the loop is returned without a scroll; and
\* in such a run, for the three identifiers of which two have a checked row
\* in the DOM and one has none, the summary counts two unticked and one not
\* found, and the absentee loop leads to the submission.
ScenarioPremises ==
    /\ hist.via = 1
    /\ hist.firstScan = "hit"
    /\ page.container
    /\ page.table.max = 0
    /\ Len(mloc.absentees) = Cardinality(Ids)

ScenarioSummary == <<[unticked |-> 2, not_found |-> 1, listed |-> <<"s9">>]>>

====
